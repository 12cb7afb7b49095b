---------------------------- MODULE AckManager ----------------------------
(***************************************************************************)
(* The in-memory ack manager of common/messaging/ackManager.go.  Matching  *)
(* uses one per task list to learn up to which task ID every task read     *)
(* from the store has been completed.                                      *)
(*                                                                         *)
(* An ack manager is a record.  The map outstandingMessages of the code    *)
(* (item ID -> completed?) is kept as two sets: `unacked' holds the IDs    *)
(* mapped to false, `acked' the IDs mapped to true.  Every method runs     *)
(* under the manager's mutex, so each is an operator from the manager      *)
(* before the call to the manager after it.                                *)
(***************************************************************************)
EXTENDS Integers, FiniteSets

Levels == Nat \cup {-1}

AckManagers == [readLevel : Levels,        \* the highest item read
                ackLevel  : Levels,        \* every item up to it is completed
                unacked   : SUBSET Nat,
                acked     : SUBSET Nat,
                backlog   : Int]           \* backlogCounter

NewAckManager == [readLevel |-> -1, ackLevel |-> -1,
                  unacked |-> {}, acked |-> {}, backlog |-> 0]

(***************************************************************************)
(* ReadItem registers an item that was just read.  Items must arrive in    *)
(* increasing order; the call fails otherwise, after it has already        *)
(* counted the item in the backlog.                                        *)
(***************************************************************************)
CanReadItem(am, id) == am.readLevel < id /\ id \notin am.unacked \cup am.acked

ReadItem(am, id) ==
  IF CanReadItem(am, id)
  THEN [am EXCEPT !.readLevel = id,
                  !.ackLevel  = IF @ = -1 THEN id - 1 ELSE @,
                  !.unacked   = @ \cup {id},
                  !.backlog   = @ + 1]
  ELSE [am EXCEPT !.backlog = @ + 1]

(***************************************************************************)
(* AckItem completes an item and then walks the IDs above the ack level up *)
(* to the read level, skipping IDs that were never read and stopping at    *)
(* the first item that is not completed.  Passed(am) are the completed     *)
(* items the walk removes; the ack level ends on the last of them.         *)
(***************************************************************************)
\* Mutant: only the item right above the ack level can be completed.
MarkAckedInOrder(am, id) ==
  IF id \in am.unacked /\ \A u \in am.unacked : id <= u
  THEN [am EXCEPT !.unacked = @ \ {id}, !.acked = @ \cup {id}, !.backlog = @ - 1]
  ELSE am

MarkAcked(am, id) ==
  IF id \in am.unacked
  THEN [am EXCEPT !.unacked = @ \ {id}, !.acked = @ \cup {id}, !.backlog = @ - 1]
  ELSE am

\* Mutant: the walk does not stop at an item that is not completed.
PassedAll(am) == {c \in am.acked : am.ackLevel < c /\ c <= am.readLevel}

Passed(am) == {c \in am.acked : /\ am.ackLevel < c
                                /\ c <= am.readLevel
                                /\ \A u \in am.unacked : am.ackLevel < u => c < u}

Highest(S) == CHOOSE x \in S : \A y \in S : y <= x

AdvanceAckLevel(am) ==
  [am EXCEPT !.ackLevel = Highest(Passed(am) \cup {am.ackLevel}),
             !.acked    = @ \ Passed(am)]

AckItem(am, id) == AdvanceAckLevel(MarkAcked(am, id))

SetReadLevel(am, level) == [am EXCEPT !.readLevel = level]

\* Mutant: the read level follows the new ack level, the ack level does not.
SetAckLevelMissing(am, level) ==
  [am EXCEPT !.readLevel = IF level > am.readLevel THEN level ELSE @]

\* SetAckLevel only ever raises the two levels.
SetAckLevel(am, level) ==
  [am EXCEPT !.ackLevel  = IF level > am.ackLevel THEN level ELSE @,
             !.readLevel = IF level > am.readLevel THEN level ELSE @]

\* The items a manager tracks lie between its two levels.
AckOrder(am) ==
  /\ am.ackLevel <= am.readLevel
  /\ am.unacked \cap am.acked = {}
  /\ \A i \in am.unacked \cup am.acked : am.ackLevel < i /\ i <= am.readLevel
============================================================================
