------------------------------- MODULE MCExec -------------------------------
(* Instance of Exec for TLC.  Tables have 8 entries, so there are 4096       *)
(* pages, of which the upper half is the kernel's.                           *)
EXTENDS Exec

Load1(va, offset, filesz, memsz) ==
    [type |-> "LOAD", va |-> va, offset |-> offset, filesz |-> filesz,
     memsz |-> memsz]
Of(type, va) == [type |-> type, va |-> va]

\* A static program whose data begins in the middle of the page on which its
\* text ends and runs over the end of the page; a dynamic one; an interpreter
\* with an INTERP header of its own; one whose interpreter is missing.
ElfFiles ==
    "/bin/init" :> [headers |-> <<Of("OTHER", 0), Load1(4 * 80, 0, 84, 84),
                                  Load1(5 * 80 + 70, 84, 6, 20)>>,
                    entry |-> 4 * 80 + 2, sections |-> 0, interp |-> "NULL"]
    @@
    "/bin/sh"   :> [headers |-> <<Of("PHDR", 4 * 80 + 8), Of("INTERP", 0),
                                  Load1(4 * 80, 0, 5, 5)>>,
                    entry |-> 4 * 80 + 1, sections |-> 2, interp |-> "/ld.so"]
    @@
    "/ld.so"    :> [headers |-> <<Load1(16, 3, 4, 4), Of("INTERP", 0),
                                  Load1(80, 0, 1, 1)>>,
                    entry |-> 18, sections |-> 0, interp |-> "/ld.so"]
    @@
    "/bin/old"  :> [headers |-> <<Of("INTERP", 0)>>,
                    entry |-> 0, sections |-> 0, interp |-> "/missing"]

\* The second leaves physical pages above the window at IoBase.
MemoryMaps == {<<[base |-> 1, length |-> 2], [base |-> 6, length |-> 40]>>,
               <<[base |-> 3, length |-> 59]>>}

PathArgs == [argv |-> <<7>>, envp |-> <<9>>]

Execs == {[path |-> "/bin/sh", args |-> [argv |-> <<2, 0>>, envp |-> <<3>>]],
          [path |-> "/bin/init", args |-> [argv |-> <<>>, envp |-> <<>>]],
          [path |-> "/bin/init", args |-> [argv |-> <<60>>, envp |-> <<9>>]],
          [path |-> "/bin/old", args |-> PathArgs],
          [path |-> "/missing", args |-> PathArgs]}
=============================================================================
