------------------------------- MODULE MCMIPS1 -------------------------------
(***************************************************************************)
(* All well-formed programs of four words over a small set of              *)
(* instructions.                                                           *)
(***************************************************************************)
EXTENDS MIPS1

I(op, rs, rt, to) == [op |-> op, rs |-> rs, rt |-> rt, to |-> to]

MCInstructions ==
    {I("ADD", 1, 2, 0), I("ADD", 1, 1, 0),
     I("LOAD", 2, 1, 0), I("LOAD", 1, 2, 0), I("LWX", 1, 1, 0),
     I("MFC", 0, 1, 0), I("MFC", 0, 0, 0), I("MTC", 0, 0, 0), I("MTC", 0, 2, 0),
     I("COP", 0, 0, 0), I("STORE", 1, 2, 0),
     I("JAL", 0, 1, N), I("JAL", 0, 0, N - 1), I("JR", 1, 0, 0), I("JR", 1, 2, 0),
     I("BNE", 2, 0, N - 1), I("GTE", 0, 0, 0), I("TRAP", 0, 0, 0)}

\* 0 turns everything off, 2 and 3 are user mode.
MCSr ==
    [v \in Values |->
        [curr |-> [ie |-> v \in {1, 2, 5}, user |-> v \in {2, 3}],
         prev |-> [ie |-> v = 4, user |-> v = 4], old |-> Kernel,
         enabled |-> CASE v \in {1, 2} -> {2} [] v = 3 -> {0, 2} [] v = 4 -> {0} [] OTHER -> {}]]
=============================================================================
