------------------------------ MODULE ExecStack ------------------------------
(***************************************************************************)
(* The stack that sched_new_elf_process (kernel/sched.c) fills for a new   *)
(* process: the strings of envp and argv, then, downwards in words of 8    *)
(* bytes, the auxiliary vector, envp, argv and argc.                       *)
(*                                                                         *)
(* A distance counts bytes downwards from the top of the stack.  Arguments *)
(* are a record of the lengths of the strings in argv and in envp.         *)
(***************************************************************************)
EXTENDS Integers, Sequences, SequencesExt

AT_ENTRY == 10
AT_PHDR == 20
AT_PHENT == 21
AT_PHNUM == 22

nargs(args) == Len(args.argv)
nenv(args) == Len(args.envp)

\* The strings in the order in which they are pushed.
Strings(args) == args.envp \o args.argv

\* Where the k-th string begins, its terminator included.
StringAt(args, k) ==
    LET down[i \in 0..k] ==
            IF i = 0 THEN 0 ELSE down[i - 1] + Strings(args)[i] + 1
    IN  down[k]

StringBytes(args) == StringAt(args, Len(Strings(args)))

\* stack - (stack & 0xf): the address rounded down, the distance up.
Align16(distance) == distance + ((-distance) % 16)

\* Faulty variant: argc is left out of the count.
PadNoArgc(args) == IF (nargs(args) + nenv(args)) % 2 = 1 THEN 8 ELSE 0

Pad(args) == IF (nargs(args) + nenv(args) + 1) % 2 = 1 THEN 8 ELSE 0

WordsFrom(args) == Align16(StringBytes(args)) + Pad(args)

\* Faulty variant: the addresses are counted off for argv first.
PointersArgvFirst(args, rsp) ==
    [k \in 1..nargs(args) + nenv(args) |->
        rsp - StringAt([argv |-> args.envp, envp |-> args.argv],
                       IF k > nenv(args) THEN k - nenv(args) ELSE k + nargs(args))]

\* sa: the addresses of the strings in the new process.
Pointers(args, rsp) ==
    [k \in 1..nargs(args) + nenv(args) |-> rsp - StringAt(args, k)]

\* The words in the order in which they are pushed.
Words(args, val, rsp) ==
    LET sa == Pointers(args, rsp)
    IN  <<0, 0,
          val.at_entry, AT_ENTRY, val.at_phdr, AT_PHDR,
          val.at_phent, AT_PHENT, val.at_phnum, AT_PHNUM, 0>>
        \o Reverse(SubSeq(sa, 1, nenv(args)))
        \o <<0>>
        \o Reverse(SubSeq(sa, nenv(args) + 1, nenv(args) + nargs(args)))
        \o <<nargs(args)>>

\* 10 words of auxiliary vector, 2 markers, argc and the pointers.
WordCount(args) == 13 + nargs(args) + nenv(args)

\* By how much the stack pointer goes down.
Skip(args) == WordsFrom(args) + 8 * WordCount(args)

\* Bytes in memory: the j-th of a string, the j-th of a word.
CharByte(k, j) == <<"char", k, j>>
WordByte(w, j) == <<"word", w, j>>

\* New bytes, written over what was there.
Onto(new, old) ==
    [a \in DOMAIN new \cup DOMAIN old |-> IF a \in DOMAIN new THEN new[a] ELSE old[a]]

\* Everything that is written, by address, for a stack whose top is at top
\* for the kernel and at rsp for the process.
Contents(args, val, top, rsp) ==
    LET words == Words(args, val, rsp)
        \* the string, or the word, that distance d lies in
        string(d) == CHOOSE k \in 1..Len(Strings(args)) :
                         StringAt(args, k - 1) < d /\ d <= StringAt(args, k)
        word(d) == (d - WordsFrom(args) - 1) \div 8 + 1
    IN  Onto([a \in top - StringBytes(args)..top - 1 |->
                 CharByte(string(top - a), StringAt(args, string(top - a)) - (top - a))],
             [a \in top - Skip(args)..top - WordsFrom(args) - 1 |->
                 WordByte(words[word(top - a)],
                          WordsFrom(args) + 8 * word(top - a) - (top - a))])
=============================================================================
