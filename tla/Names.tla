-------------------------------- MODULE Names ---------------------------------
(***************************************************************************)
(* Filenames and links: parse_filename, the checks on names that clients     *)
(* send, the two hierarchies and Link::join.                                 *)
(*                                                                         *)
(* A name is a sequence of tokens: the separators the code looks for, the     *)
(* extension "rpm", and pieces without separators.  An Option is the set of  *)
(* what it holds.  Lengths and NUL characters are left out, and so are epoch, *)
(* version and release, which parse_filename returns and nobody reads.       *)
(***************************************************************************)
EXTENDS Naturals, Sequences, SequencesExt

LastOf(name, token) == SelectLastInSeq(name, LAMBDA x : x = token)

IsRpm(name) == Len(name) >= 2 /\ SubSeq(name, Len(name) - 1, Len(name)) = <<".", "rpm">>

\* (Wrong variant: the name ends at the first dash.)
ParseAtFirstDash(name) ==
    LET stem == SubSeq(name, 1, Len(name) - 2)
        dot  == LastOf(stem, ".")
        dash == SelectInSeq(stem, LAMBDA x : x = "-")
    IN IF IsRpm(name) /\ dot # 0 /\ dash # 0
       THEN {[name |-> SubSeq(stem, 1, dash - 1),
              arch |-> SubSeq(stem, dot + 1, Len(stem))]}
       ELSE {}

\* parse_filename: name-version-release.arch.rpm, read from the right.
ParseFilename(name) ==
    LET stem == SubSeq(name, 1, Len(name) - 2)
        dot  == LastOf(stem, ".")
        rel  == LastOf(SubSeq(stem, 1, dot - 1), "-")
        ver  == LastOf(SubSeq(stem, 1, rel - 1), "-")
    IN IF IsRpm(name) /\ dot # 0 /\ rel # 0 /\ ver # 0
       THEN {[name |-> SubSeq(stem, 1, ver - 1), arch |-> SubSeq(stem, dot + 1, Len(stem))]}
       ELSE {}

\* Kiri::from_str
IsKiri(name) == name \notin {<<>>, <<".">>, <<".", ".">>} /\ ~Contains(name, "/")

\* receive_rpm: what it lets past before it opens a file of that name.
Receivable(name) ==
    /\ IsRpm(name) /\ IsKiri(name)
    /\ ~Contains(name, "\\")
    /\ \A i \in 2 .. Len(name) : ~(name[i - 1] = "." /\ name[i] = ".")

\* validate::rpm_filename makes the same checks, and the name must parse.
RpmFilename(name) == Receivable(name) /\ ParseFilename(name) # {}

\* Link::join and LinkBuf::push
Join(link, path) ==
    SubSeq(link, 1, SelectLastInSeq(link, LAMBDA x : x # "/")) \o <<"/">> \o path

\* Hierarchize::locate_relative.  A token stands for its first character.
LocateRelative(hier, name) ==
    IF hier = "Fedora" THEN <<"Packages", "/", name[1], "/">> \o name ELSE name
===============================================================================
