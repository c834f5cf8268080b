------------------------------ MODULE MCFiles ------------------------------
(* Instances of Files for TLC.  Blocks have 2 bytes, so files of 1 to 3     *)
(* bytes end inside a block, at its end and in the next one.                *)
EXTENDS Files

Dir(p)     == [kind |-> "dir", path |-> Append(p, ""), size |-> 0]
File(p, n) == [kind |-> "file", path |-> p, size |-> n]

Init2 == File(<<"bin", "init">>, 2)

\* As tar writes them, a directory in front of what is in it; then one that
\* brings its own dev, and one that lacks a directory.
BootArchives ==
    {<<Dir(<<"bin">>), Init2>>,
     <<Dir(<<"bin">>), Init2, File(<<"bin", "sh">>, 3), File(<<"f">>, 1)>>,
     <<Dir(<<"bin">>), Init2, Dir(<<"a">>), Dir(<<"a", "b">>), File(<<"a", "b", "c">>, 4)>>,
     <<File(<<"f">>, 0), Dir(<<"dev">>), File(<<"dev", "x">>, 1), Dir(<<"bin">>), Init2>>,
     <<Dir(<<"a", "b">>), Dir(<<"bin">>), Init2>>,
     <<File(<<"a", "b", "c">>, 1)>>}

SmallArchive == {<<Dir(<<"bin">>), Init2, File(<<"f">>, 1)>>}

Init_ == <<"", "bin", "init">>
BootPaths ==
    {<<"", "f">>, <<"", "bin">>, Init_, <<"", "bin", "new">>, <<"", "bin", ".", "new">>,
     <<"", "bin", "..", "f">>, <<"", "a", "b", "c">>, <<"", "a", "b">>, <<"", "dev", "tty">>,
     <<"", "dev", "x">>,
     <<"f">>, <<"bin", "f">>, <<"", "bin", "">>, <<"", "", "f">>, <<"", "">>, <<"", "x", "y">>}
BootFlags == {{}, {"O_CREAT"}, {"O_DIRECTORY"}}

FilePaths == {<<"", "f">>, <<"", "n">>, <<"", "dev", "tty">>}
FileFlags == {{}, {"O_CREAT", "O_APPEND"}}
FileSeeks == {<<"SEEK_SET", 0>>, <<"SEEK_END", 1>>, <<"SEEK_DATA", 0>>}

OneLoader == {<<"", "f">>}

TwoPaths == {<<"", "f">>, <<"", "n">>}
PlainFlags == {{}, {"O_CREAT"}}
=============================================================================
