------------------------------ MODULE MCConvert ------------------------------
(* Convert on small trees: an entry file put together from a few blocks,   *)
(* two files that it may include, two that its output may hold.            *)
EXTENDS Convert

SmallPaths == {<<"src", "main">>, <<"src", "a">>, <<"src", "b">>,
               OutMain, Confd("group-web"), Confd("web")}
SmallMain  == <<"src", "main">>
SmallNames == <<"PATH", "Web", "group-web", "web">>
SmallStems == <<"group-web", "web">>
SmallSafe  == [web |-> "web", Web |-> "web"] @@ ("group-web" :> "group-web")
SmallCaps  == [term |-> "TERM", fatal |-> "FATAL"]
SmallLower == [Yes |-> "yes", TERM |-> "term", FATAL |-> "fatal"]

T(s)       == Text(Name(s))
N(n, u)    == Text(Number(n, u))
Env(k, s)  == <<[key |-> k, word |-> Name(s)]>>
Program(n) == Header(Section("program", n))

(* Blocks of lines.  Words that convert and words that do not.             *)
Sup  == <<Assign("stray", T("x")), Header(Section("supervisord", "")),
          Assign("logfile", T("x")), Assign("minfds", T("twelve")),
          Assign("nodaemon", T("Yes")), Assign("socket_owner", T("root"))>>
Dir  == <<Header(Section("direktord", "")), Assign("logfile", T("y")),
          Assign("http_port", N(70000, ""))>>
Mail == <<Header(Section("email", "")), Assign("enabled", N(1, "")),
          Assign("recipients", T("ann")), Assign("notify_on", T("fatal"))>>
Note == <<Header(Section("notify", "")), Assign("recipients", T("bob")),
          Assign("smtp_port", N(25, "")), Assign("use_tls", T("yes"))>>
Web1 == <<Program("web"), Assign("command", T("one")),
          Assign("autorestart", T("unexpected")), Assign("stopsignal", T("term")),
          Assign("stdout_logfile_maxbytes", N(8, "KB")),
          Assign("exitcodes", N(0, "") \o T("x") \o N(2, "")),
          Assign("environment", Env("PATH", "bin") \o T("junk"))>>
Web2 == <<Program("web"), Assign("command", T("two")), Assign("umask", N(22, "")),
          Assign("autorestart", T("maybe")), Assign("startsecs", N(5, "")),
          Assign("stderr_logfile_maxbytes", N(600, "GB"))>>
Caps == <<Program("Web"), Assign("user", T("nobody")),
          Assign("environment", Env("PATH", "a-quote"))>>
Alto == <<Program("group-web"), Assign("redirect_stderr", T("true"))>>
Grp  == <<Header(Section("group", "web")), Assign("programs", T("web") \o T("db")),
          Assign("priority", N(7, ""))>>
Odd  == <<Header(Section("eventlistener", "")), Assign("command", T("x")),
          Header([Section("program", "Web") EXCEPT !.spaced = TRUE]),
          Assign("command", T("x"))>>
Inc  == <<Header(Include), Files(<<<<"src", "a">>, <<"src", "b">>>>, TRUE),
          Assign("command", T("x"))>>
Self == <<Header(Include), Files(<<<<"src", "main">>>>, FALSE)>>
Wild == <<Header(Include), Files(<<<<"src", "main">>, <<"src", "a">>>>, TRUE)>>

Blocks == {Sup, Dir, Mail, Note, Web1, Caps, Grp, Odd}
Tree(m, a, b) == <<"src", "main">> :> File(m) @@ <<"src", "a">> :> a @@ <<"src", "b">> :> b

(* Up to two blocks, or an include with something before and behind it.    *)
Alone == {Tree(x \o y, Absent, Absent) : x, y \in Blocks \cup {<<>>}}
Round == {Tree(x \o Inc \o y, a, b) :
            x, y \in {<<>>, Sup, Mail, Web1},
            a \in {Absent, File(Web2), File(Grp), File(Note)},
            b \in {Absent, File(Web1 \o Dir), File(Alto \o Mail)}}
Loops == {Tree(Web1 \o w \o Sup, File(x), Locked) : w \in {Self, Wild, Inc}, x \in {Web2, Wild}}
SomeSources == Alone \cup Round \cup Loops

(* What an edit makes of a tree: another include, or another entry file.   *)
SomeEdits == {<<"src", "a">> :> File(Web2), <<"src", "main">> :> File(Grp \o Web1)}

(* These trees are apart from what is made of them, and all of them can be *)
(* written.                                                                *)
ASSUME TreesApart == Apart
ASSUME TreesExpressible == Expressible

(* The requests of the web API say what a section of a file says.          *)
ASSUME ConversionsAgree ==
  /\ \A v \in 0..MaxInt : ParseBytes(formatBytes(v)) = v
  /\ defaultProcessConfig = handleAddProcess(<<>>)
=============================================================================
