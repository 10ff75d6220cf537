-------------------------------- MODULE MCIndex -------------------------------
(* Four rpms for Index, between them with every form of version, sense, file  *)
(* and XML event that the conversions tell apart.  "Broken" has a metainfo     *)
(* file that ends in a parse error, "own" one that declares an entity.         *)
EXTENDS Index

CONSTANTS plain, app, broken, own

Symmetry == Permutations(Pkgs)

Dep(name, flags, version) == [name |-> name, flags |-> flags, version |-> version]
File(path, ghost, dir, events) ==
    [path |-> path, ghost |-> ghost, dir |-> dir, events |-> events, entities |-> {}]
Ev(is, name) == [is |-> is, name |-> name]

Share == <<"/", "usr", "/", "share", "/">>
InMetainfo(name) == Share \o <<"metainfo", "/", name, ".", "xml">>

Component == <<Ev("start", "component"), Ev("start", "id"), Ev("text", "x"),
               Ev("ref", "amp"), Ev("end", "id"), Ev("empty", "launchable"), Ev("end", "component")>>

Plain ==
    [id |-> "plain", name |-> "terra-release", arch |-> "noarch",
     epoch |-> {}, ver |-> <<"44">>, rel |-> <<"4">>,
     requires |-> <<Dep("rpmlib", {"RPMLIB", "LESS", "EQUAL"}, <<"3.0.4", "-", "1">>),
                    Dep("terra-gpg-keys", {"EQUAL"}, <<"44", "-", "4">>),
                    Dep("/bin/sh", {"INTERP"}, <<>>),
                    Dep("glibc", {"GREATER", "EQUAL"}, <<"2.40">>),
                    Dep("old", {"LESS"}, <<"0", ":", "1.0", "-", "2">>),
                    Dep("odd", {"GREATER"}, <<"a", ":", "1">>)>>,
     provides |-> <<Dep("terra-release", {"EQUAL"}, <<"44", "-", "4">>)>>,
     files |-> <<File(<<"/", "etc", "/", "repo">>, FALSE, FALSE, <<>>),
                 File(<<"/", "etc">>, FALSE, TRUE, <<>>),
                 File(InMetainfo("gone"), TRUE, FALSE, <<>>)>>,
     changelogs |-> <<"first">>]

App ==
    [id |-> "app", name |-> "app", arch |-> "x86_64",
     epoch |-> {1}, ver |-> <<"1.2">>, rel |-> <<"3", "-", "4">>,
     requires |-> <<Dep("lib", {"LESS", "EQUAL"}, <<"2", ":", "5", "-", "6">>)>>,
     provides |-> <<Dep("app", {"EQUAL"}, <<"1", ":", "1.2", "-", "3", "-", "4">>),
                    Dep("app(x86-64)", {"EQUAL"}, <<"1", ":", "1.2", "-", "3", "-", "4">>)>>,
     files |-> <<File(<<"/", "usr", "/", "bin", "/", "app">>, FALSE, FALSE, <<>>),
                 File(<<"/", "usr", "/", "lib", "/", "sendmail">>, FALSE, FALSE, <<>>),
                 File(InMetainfo("app"), FALSE, FALSE,
                      <<Ev("decl", "xml"), Ev("doctype", "x")>> \o Component),
                 File(InMetainfo("more"), FALSE, FALSE,
                      <<Ev("start", "components")>> \o Component \o Component
                        \o <<Ev("pi", "x"), Ev("end", "components")>>),
                 File(Share \o <<"doc", "/", "x", ".", "xml">>, FALSE, FALSE, Component)>>,
     changelogs |-> <<"first", "second">>]

Broken ==
    [App EXCEPT !.id = "broken", !.epoch = {0}, !.rel = <<"5">>,
                !.provides = <<Dep("app", {"EQUAL"}, <<"1.2", "-", "5">>)>>,
                !.files = <<File(InMetainfo("app"), FALSE, FALSE,
                                 <<Ev("decl", "xml"), Ev("start", "component"),
                                   Ev("error", "end")>>)>>]

Own ==
    [App EXCEPT !.id = "own",
                !.files = <<[File(InMetainfo("app"), FALSE, FALSE,
                                  <<Ev("doctype", "x"), Ev("start", "component"),
                                    Ev("ref", "vendor"), Ev("end", "component")>>)
                                EXCEPT !.entities = {"vendor"}],
                            File(InMetainfo("more"), FALSE, FALSE, Component)>>]

MCNumbers == ("0" :> 0) @@ ("1" :> 1) @@ ("2" :> 2)

MCRpm == (plain :> Plain) @@ (app :> App) @@ (broken :> Broken) @@ (own :> Own)

\* The theorems' hypotheses (IndexProofs) are met.
ASSUME \A v \in Vers : BuiltProperly(MCRpm[v]) /\ ReadAsXml(MCRpm[v])
===============================================================================
