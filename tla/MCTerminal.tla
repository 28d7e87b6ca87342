------------------------------ MODULE MCTerminal ------------------------------
(* Two devices and a root directory with an entry of each kind. *)
EXTENDS Terminal

Entry(base, ext, attr) == [base |-> base, ext |-> ext, attr |-> attr]

MCDevices == <<<<"d">>, <<"d">>>>
MCRootDir == <<Entry(<<"f", " ">>, <<" ">>, "kArchive"),
               Entry(<<"e5", "x">>, <<"x">>, "kArchive"),
               Entry(<<"x", "x">>, <<"x">>, "kLongName"),
               Entry(<<"f", "f">>, <<"f">>, "kArchive"),
               Entry(<<>>, <<>>, "kArchive"),
               Entry(<<"x", " ">>, <<"x">>, "kArchive")>>
===============================================================================
