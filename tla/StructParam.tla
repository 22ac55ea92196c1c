---------------------------- MODULE StructParam ----------------------------
(***************************************************************************)
(* A struct parameter and the individual parameters of its members         *)
(* (StructParam of extparams.py), of which one kind has methods for the    *)
(* hardware: then the struct is read and written through its members, or   *)
(* the members through the struct.  One request at a time, or a poll,      *)
(* holds the accessLock; a driver may assign what it finds changed on the  *)
(* hardware at any time.  announceUpdate with all its callbacks is one     *)
(* step, as it holds the updateLock.                                       *)
(***************************************************************************)
EXTENDS Naturals, Sequences, SequencesExt

CONSTANTS Members, Values, MaxAssigns

VARIABLES
  hasStructRW,  \* the methods implemented are those of the struct
  hw,           \* the hardware
  member,       \* the values of the individual parameters
  struct,       \* the value of the struct parameter
  bad,          \* the parameters with a readerror
  insideRW,
  op,           \* what the holder of the accessLock does
  assigns,      \* number of values assigned by the driver
  doubt         \* history: a struct was not read or written as a whole since something failed,
                \* or was assigned in the meantime

vars == <<hasStructRW, hw, member, struct, bad, insideRW, op, assigns, doubt>>

Structs == [Members -> Values]
Struct == "struct"   \* the name of the struct parameter

\* at: the next step; todo: the members still to be read or written; goal: what is to be
\* written; got: what the methods called so far have returned; clean: nothing was assigned.
NoOp == [at |-> "idle", todo |-> << >>, whole |-> FALSE, write |-> FALSE, goal |-> << >>,
         got |-> << >>, clean |-> TRUE]

Init ==
  /\ hasStructRW \in BOOLEAN
  /\ hw \in Structs /\ member = hw /\ struct = hw /\ bad = {}
  /\ insideRW = 0 /\ op = NoOp /\ assigns = 0 /\ doubt = FALSE

InOrder == SetToSeq(Members)

-----------------------------------------------------------------------------
(* announceUpdate with its callbacks.                                      *)

\* The callback of a member changes the struct, unless the struct is being read or written.
MemberCallback(m, v) ==
  IF insideRW = 0
  THEN struct' = [struct EXCEPT ![m] = v] /\ bad' = bad \ {m, Struct}
  ELSE bad' = bad \ {m} /\ UNCHANGED struct

\* An update without a change, shortly after the last one, is omitted with its callbacks.
MayOmit(p, unchanged) == unchanged /\ p \notin bad

AnnounceMember(m, v) ==
  /\ member' = [member EXCEPT ![m] = v]
  /\ \/ ~hasStructRW /\ MemberCallback(m, v)
     \/ /\ hasStructRW \/ MayOmit(m, member[m] = v)
        /\ bad' = bad \ {m} /\ UNCHANGED struct

\* The callback of the struct assigns the members.
AnnounceStruct(s, omitted) ==
  /\ omitted => MayOmit(Struct, struct = s)
  /\ struct' = s
  /\ IF hasStructRW /\ ~omitted
     THEN member' = s /\ bad' = {}
     ELSE UNCHANGED member /\ bad' = bad \ {Struct}

-----------------------------------------------------------------------------
(* Requests and polls, holding the accessLock.                             *)

Begin(todo, whole, write, goal) ==
  /\ op.at = "idle"
  /\ op' = [at |-> IF hasStructRW THEN "struct" ELSE "member",
            todo |-> IF hasStructRW /\ whole THEN << >> ELSE todo,
            whole |-> whole, write |-> write, goal |-> goal, got |-> struct, clean |-> TRUE]
  /\ insideRW' = IF whole /\ ~hasStructRW THEN insideRW + 1 ELSE insideRW
  /\ UNCHANGED <<hasStructRW, hw, member, struct, bad, assigns, doubt>>

ReadStruct == Begin(InOrder, TRUE, FALSE, struct)
WriteStruct(s) == Begin(InOrder, TRUE, TRUE, s)
ReadMember(m) == Begin(<<m>>, FALSE, FALSE, struct)

\* When the struct has the methods, the other members are written as they were known.
WriteMember(m, v) == Begin(<<m>>, FALSE, TRUE, [struct EXCEPT ![m] = v])

\* The method of one member: its value is written, or read.
MemberMethod ==
  LET m == Head(op.todo) IN
  /\ op.at = "member"
  /\ hw' = IF op.write THEN [hw EXCEPT ![m] = op.goal[m]] ELSE hw
  /\ op' = [op EXCEPT !.at = "announce", !.got[m] = hw'[m]]
  /\ UNCHANGED <<hasStructRW, member, struct, bad, insideRW, assigns, doubt>>

MemberAnnounced ==
  LET m == Head(op.todo) IN
  /\ op.at = "announce"
  /\ AnnounceMember(m, op.got[m])
  /\ op' = IF Len(op.todo) > 1 THEN [op EXCEPT !.at = "member", !.todo = Tail(@)]
           ELSE IF op.whole THEN [op EXCEPT !.at = "leave", !.todo = << >>] ELSE NoOp
  /\ UNCHANGED <<hasStructRW, hw, insideRW, assigns, doubt>>

LeaveMembers ==
  /\ op.at = "leave"
  /\ insideRW' = insideRW - 1
  /\ op' = [op EXCEPT !.at = "whole"]
  /\ UNCHANGED <<hasStructRW, hw, member, struct, bad, assigns, doubt>>

\* The method of the struct.
StructMethod ==
  /\ op.at = "struct"
  /\ hw' = IF op.write THEN op.goal ELSE hw
  /\ op' = [op EXCEPT !.at = "whole", !.got = hw']
  /\ UNCHANGED <<hasStructRW, member, struct, bad, insideRW, assigns, doubt>>

\* After the struct was written for a member, it is read for this member.
StructAnnounced ==
  /\ op.at = "whole"
  /\ \E omitted \in BOOLEAN :
       /\ AnnounceStruct(op.got, omitted)
       /\ doubt' = (doubt /\ ~(op.whole /\ op.clean /\ (hasStructRW => ~omitted)))
  /\ op' = IF op.todo = << >> THEN NoOp
           ELSE IF op.write THEN [op EXCEPT !.at = "struct", !.write = FALSE]
           ELSE [op EXCEPT !.at = "announce"]
  /\ UNCHANGED <<hasStructRW, hw, insideRW, assigns>>

\* A read error is announced for the parameters being read, a write error for none.
Fail ==
  /\ op.at \in {"member", "struct"}
  /\ bad' = IF op.write THEN bad
            ELSE bad \cup (IF op.todo = << >> THEN {} ELSE {Head(op.todo)})
                     \cup (IF op.whole \/ hasStructRW THEN {Struct} ELSE {})
  /\ op' = NoOp
  /\ doubt' = (doubt \/ (op.whole /\ ~hasStructRW))
  /\ UNCHANGED <<hasStructRW, hw, member, struct, assigns>>

\* a slip: without "finally"
MethodFailsInside == Fail /\ UNCHANGED insideRW

MethodFails ==
  /\ Fail
  /\ insideRW' = IF op.whole /\ ~hasStructRW THEN insideRW - 1 ELSE insideRW

-----------------------------------------------------------------------------
\* The driver assigns what has changed on the hardware, without the accessLock.
Assign(m, v) ==
  /\ assigns < MaxAssigns /\ assigns' = assigns + 1
  /\ hw' = [hw EXCEPT ![m] = v]
  /\ IF hasStructRW THEN \E omitted \in BOOLEAN : AnnounceStruct(hw', omitted) ELSE AnnounceMember(m, v)
  /\ op' = IF op.at = "idle" THEN op ELSE [op EXCEPT !.clean = FALSE]
  /\ doubt' = (doubt \/ op.at # "idle")
  /\ UNCHANGED <<hasStructRW, insideRW>>

Next ==
  \/ ReadStruct \/ \E s \in Structs : WriteStruct(s)
  \/ \E m \in Members : ReadMember(m) \/ \E v \in Values : WriteMember(m, v)
  \/ MemberMethod \/ MemberAnnounced \/ LeaveMembers \/ StructMethod \/ StructAnnounced
  \/ MethodFails
  \/ \E m \in Members, v \in Values : Assign(m, v)

Spec == Init /\ [][Next]_vars

-----------------------------------------------------------------------------
Steps == {"idle", "member", "announce", "leave", "struct", "whole"}

TypeOK ==
  /\ hasStructRW \in BOOLEAN /\ hw \in Structs /\ member \in Structs /\ struct \in Structs
  /\ bad \subseteq Members \cup {Struct} /\ insideRW \in {0, 1} /\ op.at \in Steps
  /\ assigns \in 0 .. MaxAssigns /\ doubt \in BOOLEAN

\* The struct and its members agree whenever no request and no poll is under way - after
\* an error, or a value assigned meanwhile, as soon as the struct was read or written again.
StructAgrees == op.at = "idle" /\ ~doubt => struct = member

\* The struct has the values of its members, or a readerror.  Violated when one member
\* could not be written or read, and then an other one is.
StructHonest == op.at = "idle" => struct = member \/ Struct \in bad
=============================================================================
