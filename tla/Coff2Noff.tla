----------------------------- MODULE Coff2Noff ------------------------------
(***************************************************************************)
(* coff2noff/coff2noff.c: the program that turns what the linker made into *)
(* the executable that AddrSpace::Load reads.  It copies the sections one  *)
(* by one behind a header that it writes last.  Each read and each write   *)
(* may fail.                                                               *)
(*                                                                         *)
(* A byte of a section is named by its address.                            *)
(***************************************************************************)
EXTENDS Integers, Sequences
LOCAL INSTANCE SequencesExt

CONSTANTS
    Coff,        \* the inputs: sequences of sections
    HeaderSize,  \* sizeof(NoffHeader)
    Undefined    \* what a field holds before it is assigned

VARIABLES
    sections, i,   \* the input, and the next section
    noffH,         \* the header being made
    out,           \* what was written behind the place of the header
    status         \* "run", "done" or "failed": no output, exit(1)

vars == <<sections, i, noffH, out, status>>

Copied == {".text", ".data", ".rdata"}
Segment ==
    [n \in Copied \cup {".bss"} |->
        CASE n = ".text" -> "code" [] n = ".data" -> "initData"
          [] n = ".rdata" -> "readonlyData" [] n = ".bss" -> "uninitData"]
Bytes(s) == [k \in 1..s.size |-> s.paddr + k]

\* The section loop stays within the section headers.
TypeOK ==
    /\ i \in 1..Len(sections) + 1
    /\ status \in {"run", "done", "failed"}

Init ==
    /\ sections \in Coff
    /\ i = 1
    /\ noffH = [seg \in {Segment[n] : n \in DOMAIN Segment} |->
                   [virtualAddr |-> Undefined, inFileAddr |-> Undefined, size |-> 0]]
    /\ out = <<>>
    /\ status = "run"

\* A message, unlink of the output and exit(1).
Fail ==
    /\ status' = "failed"
    /\ UNCHANGED <<sections, i, noffH, out>>

Advance == i' = i + 1 /\ UNCHANGED <<sections, status>>

EmptySection(s) ==
    /\ s.size = 0
    /\ Advance /\ UNCHANGED <<noffH, out>>


CopySection(s) ==
    /\ s.size # 0 /\ s.name \in Copied
    /\ noffH' = [noffH EXCEPT ![Segment[s.name]] =
          [virtualAddr |-> s.paddr, inFileAddr |-> HeaderSize + Len(out),
           size |-> s.size]]
    /\ out' = out \o Bytes(s)
    /\ Advance

\* A second .bss is refused when it begins where the first ends.
BssSection(s) ==
    LET u == noffH.uninitData IN
    /\ s.size # 0 /\ s.name = ".bss"
    /\ IF u.size = 0
       THEN /\ noffH' = [noffH EXCEPT !.uninitData.virtualAddr = s.paddr,
                                      !.uninitData.size = s.size]
            /\ Advance /\ UNCHANGED out
       ELSE IF s.paddr = u.virtualAddr + u.size THEN Fail
       ELSE /\ noffH' = [noffH EXCEPT !.uninitData.size = u.size + s.size]
            /\ Advance /\ UNCHANGED out

UnknownSection(s) == s.size # 0 /\ s.name \notin DOMAIN Segment /\ Fail

\* Read or Write transfers less than it was asked to.
TransferFails == status = "run" /\ Fail

WriteHeader ==
    /\ status = "run" /\ i = Len(sections) + 1
    /\ status' = "done"
    /\ UNCHANGED <<sections, i, noffH, out>>

Section ==
    /\ status = "run" /\ i <= Len(sections)
    /\ LET s == sections[i] IN
       \/ EmptySection(s) \/ CopySection(s) \/ BssSection(s) \/ UnknownSection(s)

Next == Section \/ WriteHeader \/ TransferFails

Spec == Init /\ [][Next]_vars

-----------------------------------------------------------------------------
(* Properties                                                              *)

Sections == {sections[k] : k \in DOMAIN sections}

\* The header of a finished executable says of every section that was copied
\* where its bytes belong, and where in the file they are: exactly those are
\* found there.
HeaderIsRight ==
    status = "done" =>
        \A s \in Sections : s.size # 0 /\ s.name \in Copied =>
            LET h == noffH[Segment[s.name]] IN
            /\ h.virtualAddr = s.paddr /\ h.size = s.size
            /\ \A k \in 1..s.size :
                  /\ h.inFileAddr - HeaderSize + k \in DOMAIN out
                  /\ out[h.inFileAddr - HeaderSize + k] = Bytes(s)[k]

\* It says also where uninitialised data begins and how much there is.  With
\* one .bss section that is the section.  Of several, only ones with a gap
\* between them come so far, and the header leaves the gap out.
BssIsRight ==
    LET bss == SelectSeq(sections, LAMBDA s : s.name = ".bss" /\ s.size # 0) IN
    status = "done" =>
        /\ noffH.uninitData.size = FoldLeft(LAMBDA n, s : n + s.size, 0, bss)
        /\ bss # <<>> => noffH.uninitData.virtualAddr = bss[1].paddr

=============================================================================
