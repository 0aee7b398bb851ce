----------------------------- MODULE MCPrograms -----------------------------
(* A small set of arguments and files to check Programs with. *)
EXTENDS Programs

Plain(opt, val) == [opt |-> opt, val |-> val, eq |-> FALSE, caps |-> FALSE]
Set(opt, val) == [opt |-> opt, val |-> val, eq |-> TRUE, caps |-> FALSE]

MCArgument ==
    {Set("--logging", "sil"), Set("--logging", "junk"),
     Set("--logging_priority", "info"), Set("--logging_priority", "junk"),
     [Set("--logging_priority", "error") EXCEPT !.caps = TRUE],
     Set("--playground", "true"), Set("--playground", "junk"),
     Plain("--print_to_console", ""),
     Plain("-I", "q"), Set("-I", "p"), Plain("-F", "p"),
     Plain("-L", "p"), Plain("-L", "q"), Plain("-L", "link"), Plain("-L", "missing")}

\* Two directories have a file for the library ui, one of them a broken one;
\* core is in another, and in the current one; win32 is in a directory too, but
\* the system finds it by itself.  The path link leads to q, missing nowhere.
MCLibrary == {"ui", "core", "win32"}
MCPresent == [p |-> {"ui"}, q |-> {"ui", "core", "win32"}, here |-> {"core"}]
MCBroken == {<<"p", "ui">>}
MCRealPath == [p |-> "p", q |-> "q", link |-> "q"]
MCOnSystem == {"win32"}

=============================================================================
