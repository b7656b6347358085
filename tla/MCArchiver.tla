----------------------------- MODULE MCArchiver -----------------------------
(* Instances of Archiver for TLC.                                          *)
EXTENDS Archiver

\* Two packed files in a directory "d", and the two names they unpack to in
\* the working directory.
MCPaths == {"d/a", "d/b", "a", "b"}
MCNames == {"a", "b"}
MCBase == [f \in MCPaths |-> IF f \in {"d/a", "a"} THEN "a" ELSE "b"]
MCModes == SUBSET {"r", "w"}
MCData == {"a1", "a2", "a3", "b1", "c1"}

File(bytes) == [kind |-> "regular", data |-> [i \in DOMAIN bytes |-> Byte(bytes[i])],
                mode |-> {"r", "w"}]
FileA == File(<<"a1", "a2", "a3">>)
FileB == File(<<"b1">>)
FileC == File(<<"c1">>)
Unreadable == [FileB EXCEPT !.mode = {"w"}]
FifoB == [FileB EXCEPT !.kind = "special"]

Cmd(op, a, files) == [op |-> op, arch |-> a, files |-> files]

Directory == [kind |-> "directory", data |-> <<>>, mode |-> {"r", "w"}]

\* d/a is a readable file, d/b another or a directory, which -i skips;
\* nothing is unpacked yet.
CleanDisk ==
    { [f \in MCPaths |-> CASE f = "d/a" -> FileA [] f = "d/b" -> b [] OTHER -> Missing] :
        b \in {FileB, Directory} }

\* d/b is a readable file, an unreadable one, a fifo, or does not exist.
TroubledDisk ==
    { [f \in MCPaths |-> CASE f = "d/a" -> FileA [] f = "d/b" -> b [] OTHER -> Missing] :
        b \in {FileB, Unreadable, FifoB, Missing} }

NoStates == {}
ChangedStates == {FileC}

\* Every insertion brings d/a and nothing removes a, so no archive is emptied.
KeepCommands ==
    {Cmd("input", "t", <<"d/a">>), Cmd("input", "t", <<"d/b", "d/a">>),
     Cmd("remove", "t", <<"b">>), Cmd("extract", "t", <<>>),
     Cmd("extract", "t", <<"a">>), Cmd("stat", "t", <<>>)}

AnyCommands ==
    {Cmd("input", "t", <<"d/a">>), Cmd("input", "t", <<"d/b", "d/a">>),
     Cmd("input", "t", <<>>), Cmd("remove", "t", <<"a">>), Cmd("remove", "t", <<"b">>),
     Cmd("extract", "t", <<>>), Cmd("extract", "t", <<"b">>)}
=============================================================================
