------------------------- MODULE BranchTargetBuffer -------------------------
(* branch/branch_target_buffer.sv: full program counters as tags, one target *)
(* each.  Entries are 0 .. EntryCount - 1; which one is evicted is left open *)
(* here (the pseudo-LRU tree names one).                                    *)
EXTENDS Instructions, FiniteSetsExt

CONSTANT EntryCount
ASSUME EntryAssumption == EntryCount \in Nat \ {0}

VARIABLES tag, target

btbVars == <<tag, target>>
Entries == 0 .. EntryCount - 1

BtbTypeOK ==
  /\ tag \in [Entries -> Word]
  /\ target \in [Entries -> Word]

BtbInit ==
  /\ tag = [e \in Entries |-> 0]
  /\ target = [e \in Entries |-> 0]

Matches(pc) == {e \in Entries : tag[e] = pc}
isMiss(pc) == Matches(pc) = {}

\* The loop leaves the last entry that matches.
BTB_out(pc) == IF isMiss(pc) THEN Plus(pc, 1) ELSE target[Max(Matches(pc))]

\* Fault: an entry takes the fall-through address.
BtbEdgeFallThrough(ex, br_en, evict) ==
  \/ /\ ex.ismiss /\ br_en
     /\ tag' = [tag EXCEPT ![evict] = ex.pc]
     /\ target' = [target EXCEPT ![evict] = Plus(ex.pc, 1)]
  \/ /\ ~(ex.ismiss /\ br_en)
     /\ UNCHANGED btbVars

\* Fault: a jump corrects one entry, as if there could be no second.
BtbEdgeOneEntry(ex, br_en, evict) ==
  \/ /\ ex.ismiss /\ br_en
     /\ tag' = [tag EXCEPT ![evict] = ex.pc]
     /\ target' = [target EXCEPT ![evict] = ex.alu_out]
  \/ /\ ~ex.ismiss /\ ex.instr.op \in Jumps
     /\ target' = IF isMiss(ex.pc) THEN target ELSE [target EXCEPT ![Max(Matches(ex.pc))] = ex.alu_out]
     /\ UNCHANGED tag
  \/ /\ ~(ex.ismiss /\ br_en)
     /\ ex.ismiss \/ ex.instr.op \notin Jumps
     /\ UNCHANGED btbVars

\* One edge, given what the MEM stage holds and the index of the tree.
BtbEdge(ex, br_en, evict) ==
  \/ /\ ex.ismiss /\ br_en
     /\ tag' = [tag EXCEPT ![evict] = ex.pc]
     /\ target' = [target EXCEPT ![evict] = ex.alu_out]
  \/ /\ ~ex.ismiss /\ ex.instr.op \in Jumps
     /\ target' = [e \in Entries |-> IF tag[e] = ex.pc THEN ex.alu_out ELSE target[e]]
     /\ UNCHANGED tag
  \/ /\ ~(ex.ismiss /\ br_en)
     /\ ex.ismiss \/ ex.instr.op \notin Jumps
     /\ UNCHANGED btbVars
-----------------------------------------------------------------------------
\* A miss is allocated again in every cycle of a stall, so a program counter can
\* have several entries, of which a lookup takes the last.  It may, because they
\* all have the same target.
DuplicatesAgree ==
  \A e, f \in Entries : tag[e] = tag[f] => target[e] = target[f]
=============================================================================
