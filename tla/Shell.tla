------------------------------- MODULE Shell --------------------------------
(* The shell (user/shell_rs): its line editor with a history, and what a line *)
(* does to the shell itself: directory, environment, aliases, files and        *)
(* descriptors.  Text of the editor is a sequence of keys; a line that is run  *)
(* is a sequence of pipeline segments, each a sequence of words.               *)
EXTENDS Integers, Sequences, FiniteSets, SequencesExt, TLC

CONSTANTS
    ShKeys,         \* printable keys
    MAX_LINE, HISTORY_SIZE,
    MaxLines,       \* bound: lines entered in a behaviour
    ShLines,        \* the lines the user runs
    Scripts,        \* file name -> the lines it holds
    ShDirs,         \* directories that can be entered, from the root
    MaxFds          \* descriptors a task may have open

VARIABLES
    sh_use,         \* "edit" or "lines"
    ed,             \* the editor: buffer, place in the history, saved line, screen; typed is a
                    \* history variable: the line last seen outside the history
    hist,           \* the history, newest first
    sh,             \* the shell: cwd, env, aliases, files, fds and the last exit code
    entered         \* lines entered so far

shell_vars == <<sh_use, ed, hist, sh, entered>>

(* -------------------------------------------------------- the line editor *)
Blank == [buf |-> <<>>, idx |-> 0, saved |-> <<>>, screen |-> <<>>, typed |-> <<>>]
Open(kind, name) == [kind |-> kind, name |-> name]
init_env == [PWD |-> "/", OLDPWD |-> "unset", X |-> "unset"]
ShellInit ==
    /\ sh_use \in {"edit", "lines"} /\ ed = Blank /\ hist = <<>> /\ entered = 0
    /\ sh = [cwd |-> "/", before |-> "/", env |-> init_env, aliases |-> <<>>,
             files |-> {}, fds |-> [fd \in 0..2 |-> Open("console", "")], code |-> 0, starved |-> FALSE]

\* History::push: not twice in a row, the oldest goes when it is full.
push(h, line) ==
    IF h # <<>> /\ h[1] = line THEN h
    ELSE <<line>> \o (IF Len(h) >= HISTORY_SIZE THEN Front(h) ELSE h)
\* Every character on the screen is erased, then the new text is written.
Replace(text) ==
    LET kept == SubSeq(ed.screen, 1, Len(ed.screen) - Len(ed.buf)) IN
    [ed EXCEPT !.buf = text, !.screen = kept \o text]
key_up_Again ==     \* Fault: the line is saved at every step up.
    /\ hist # <<>>
    /\ LET i == IF ed.idx = 0 THEN 1 ELSE IF ed.idx < Len(hist) THEN ed.idx + 1 ELSE ed.idx IN
       ed' = [Replace(hist[i]) EXCEPT !.idx = i, !.saved = ed.buf]
key_up ==
    /\ hist # <<>>
    /\ LET i == IF ed.idx = 0 THEN 1 ELSE IF ed.idx < Len(hist) THEN ed.idx + 1 ELSE ed.idx IN
       ed' = [Replace(hist[i]) EXCEPT !.idx = i, !.saved = IF ed.idx = 0 THEN ed.buf ELSE ed.saved]
key_down ==
    /\ hist # <<>> /\ ed.idx > 0
    /\ ed' = [Replace(IF ed.idx = 1 THEN ed.saved ELSE hist[ed.idx - 1]) EXCEPT !.idx = ed.idx - 1]
Typed(e) == IF e.idx = 0 THEN [e EXCEPT !.typed = e.buf] ELSE e
key_backspace ==
    /\ ed.buf # <<>> /\ ed' = Typed([ed EXCEPT !.buf = Front(ed.buf), !.screen = Front(ed.screen)])
key_char(k) ==
    /\ Len(ed.buf) < MAX_LINE - 1
    /\ ed' = Typed([ed EXCEPT !.buf = Append(@, k), !.screen = Append(@, k)])
\* Control-C and an empty line run nothing; any other line is added to the history.
key_enter(interrupted) ==
    /\ entered < MaxLines /\ entered' = entered + 1 /\ ed' = Blank
    /\ hist' = IF interrupted \/ ed.buf = <<>> THEN hist ELSE push(hist, ed.buf)
read_line ==
    /\ sh_use = "edit" /\ UNCHANGED <<sh_use, sh>>
    /\ \/ /\ key_up \/ key_down \/ key_backspace \/ (\E k \in ShKeys : key_char(k))
          /\ UNCHANGED <<hist, entered>>
       \/ \E interrupted \in BOOLEAN : key_enter(interrupted)

(* ----------------------------------------------------------- redirections *)
\* Taken from the end of the line, one at a time, until none is left; so of two
\* of a kind the first one written counts.
Operators == {">", "2>"}
RECURSIVE ParseFrom(_, _)
ParseFrom(words, p) ==
    LET n == Len(words) IN
    IF n > 0 /\ words[n] = "2>&1"
    THEN ParseFrom(Front(words), [p EXCEPT !.merge = TRUE])
    ELSE IF n > 1 /\ words[n - 1] \in Operators /\ words[n] \notin Operators
    THEN ParseFrom(SubSeq(words, 1, n - 2),
                   IF words[n - 1] = "2>" THEN [p EXCEPT !.err = words[n]] ELSE [p EXCEPT !.out = words[n]])
    ELSE [p EXCEPT !.words = words]
NoRedirect == [words |-> <<>>, out |-> "", err |-> "", merge |-> FALSE]
parse_redirections(words) == ParseFrom(words, NoRedirect)

(* ------------------------------------------------------------ one command *)
Exit(s, code) == [s EXCEPT !.code = code]
Fd(s) == CHOOSE fd \in 3..MaxFds : fd \notin DOMAIN s.fds /\ \A g \in 3..(fd - 1) : g \in DOMAIN s.fds
HasFd(s, n) == Cardinality((3..MaxFds) \ DOMAIN s.fds) >= n
create(s, file) == [s EXCEPT !.files = @ \cup {file}]
\* fs::create, dup2 onto 1 or 2 and close: the shell's own descriptor changes.
redirect(s, fd, file) == IF ~HasFd(s, 1) THEN s ELSE [create(s, file) EXCEPT !.fds[fd] = Open("file", file)]
redirect_all(s, p) ==
    LET o == IF p.out = "" THEN s ELSE redirect(s, 1, p.out) IN
    IF p.merge THEN [o EXCEPT !.fds[2] = o.fds[1]]
    ELSE IF p.err = "" THEN o ELSE redirect(o, 2, p.err)
Target(s, dir) == IF dir = "/" THEN "/" ELSE IF s.cwd = "/" THEN "/" \o dir ELSE s.cwd \o "/" \o dir
\* The previous directory is asked for after the change.
cmd_cd(s, arg) ==
    LET to == IF arg = "-" THEN s.env.OLDPWD ELSE Target(s, arg) IN
    IF to \notin ShDirs THEN Exit(s, 1)
    ELSE Exit([s EXCEPT !.cwd = to, !.before = s.cwd, !.env.PWD = to,
                        !.env.OLDPWD = IF arg = "-" THEN @ ELSE to], 0)
cmd_export(s, key, value) == Exit([s EXCEPT !.env[key] = value], 0)
cmd_unset(s, key) == Exit([s EXCEPT !.env[key] = ""], 0)
cmd_alias(s, name, words) == Exit([s EXCEPT !.aliases = (name :> words) @@ @], 0)
cmd_unalias(s, name) ==
    IF name \in DOMAIN s.aliases THEN Exit([s EXCEPT !.aliases = [n \in DOMAIN @ \ {name} |-> @[n]]], 0)
    ELSE Exit(s, 1)
cmd_touch(s, file) == IF HasFd(s, 1) THEN Exit(create(s, file), 0) ELSE Exit(s, 1)
cmd_rm(s, file) == IF file \in s.files THEN Exit([s EXCEPT !.files = @ \ {file}], 0) ELSE Exit(s, 1)
\* A copy that cannot be made closes what it opened.
cmd_cp(s, src, dst) ==
    IF src \notin s.files \/ ~HasFd(s, 2) THEN Exit(s, 1) ELSE Exit(create(s, dst), 0)
cmd_mkdir(s, x) == Exit(s, IF x.creates THEN 0 ELSE 1)
cmd_rmdir(s, x) == Exit(s, IF x.creates THEN 0 ELSE 1)
cmd_stat(s, file) == Exit(s, IF file \in s.files THEN 0 ELSE 1)
cmd_ls(s) == Exit(s, 0)      \* as cat, history, env, help, pwd and ps: prints only
echo(s, p) ==
    LET o == IF p.out = "" \/ ~HasFd(s, 1) THEN s ELSE create(s, p.out) IN
    Exit(IF p.merge \/ p.err = "" \/ ~HasFd(o, 1) THEN o
         ELSE [create(o, p.err) EXCEPT !.fds = (Fd(o) :> Open("file", p.err)) @@ @], 0)
\* A program: created, the shell's descriptors turned, started and waited for.
run_program(s, p, x) == IF ~x.creates THEN Exit(s, 127) ELSE Exit(redirect_all(s, p), x.code)
cmd_run(s, x) == Exit(s, IF x.creates THEN x.code ELSE 1)

\* $X in a word is replaced by its value; the first word by its alias, once.
expand_vars(s, words) == [i \in DOMAIN words |-> IF words[i] = "$X" THEN s.env.X ELSE words[i]]
expand_aliases(s, line) ==
    IF line[1] # <<>> /\ line[1][1] \in DOMAIN s.aliases
    THEN <<s.aliases[line[1][1]] \o Tail(line[1])>> \o Tail(line) ELSE line
Arg(w, i) == IF i \in DOMAIN w THEN w[i] ELSE "/"

RECURSIVE dispatch_line(_, _, _), cmd_source(_, _, _)
run_single_command(st, words, x) ==
    LET s == st.s
        p == parse_redirections(words)
        w == expand_vars(s, p.words)
    IN IF w = <<>> THEN [st EXCEPT !.s = Exit(s, 0)]
       ELSE IF w[1] = "source" THEN cmd_source(st, Arg(w, 2), x)
       ELSE [st EXCEPT !.s =
        CASE w[1] = "cd" -> cmd_cd(s, Arg(w, 2))
          [] w[1] = "export" -> cmd_export(s, w[2], w[3])
          [] w[1] = "unset" -> cmd_unset(s, w[2])
          [] w[1] = "alias" -> cmd_alias(s, w[2], SubSeq(w, 3, Len(w)))
          [] w[1] = "unalias" -> cmd_unalias(s, w[2])
          [] w[1] = "touch" -> cmd_touch(s, w[2])
          [] w[1] = "rm" -> cmd_rm(s, w[2])
          [] w[1] = "cp" -> cmd_cp(s, w[2], w[3])
          [] w[1] = "stat" -> cmd_stat(s, w[2])
          [] w[1] = "mkdir" -> cmd_mkdir(s, x)
          [] w[1] = "rmdir" -> cmd_rmdir(s, x)
          [] w[1] = "ls" -> cmd_ls(s)
          [] w[1] = "echo" -> echo(s, p)
          [] w[1] = "run" -> cmd_run(s, x)
          [] w[1] = "true" -> Exit(s, 0)
          [] w[1] = "false" -> Exit(s, 1)
          [] OTHER -> run_program(s, p, x)]

\* The pipes of a pipeline are made first: when one cannot be, those made so far
\* stay open.  Then the segments run one after the other, and the pipes are closed.
RECURSIVE MakePipes(_, _, _)
MakePipes(s, n, made) ==
    IF n = 0 \/ ~HasFd(s, 2) THEN [s |-> s, made |-> made]
    ELSE LET r == Fd(s)
             s1 == [s EXCEPT !.fds = (r :> Open("pipe", "read")) @@ @]
             w == Fd(s1)
         IN MakePipes([s1 EXCEPT !.fds = (w :> Open("pipe", "write")) @@ @], n - 1, Append(made, <<r, w>>))
Segment(s, words, i, n, pipes, x) ==
    LET p == parse_redirections(words)
        w == expand_vars(s, p.words)
        fed == IF i > 1 THEN [s EXCEPT !.fds[0] = s.fds[pipes[i - 1][1]]] ELSE s
        piped == IF i < n THEN [fed EXCEPT !.fds[1] = s.fds[pipes[i][2]]] ELSE fed
    IN IF w = <<>> THEN s ELSE IF w[1] = "echo" THEN Exit(s, 0) ELSE
       IF ~x.creates THEN Exit(s, 127) ELSE Exit(redirect_all(piped, p), x.code)
close_pipes(s, pipes) ==
    LET gone == UNION {{pipes[i][1], pipes[i][2]} : i \in DOMAIN pipes} IN
    [s EXCEPT !.fds = [fd \in DOMAIN s.fds \ gone |-> s.fds[fd]]]
pipeline(s, line, x) ==
    LET n == Len(line)
        m == MakePipes(s, n - 1, <<>>)
    IN IF Len(m.made) < n - 1 THEN Exit([m.s EXCEPT !.starved = TRUE], 1)
       ELSE close_pipes(FoldLeft(LAMBDA t, i : Segment(t, line[i], i, n, m.made, x), m.s, [i \in 1..n |-> i]),
                        m.made)
\* st is the shell and its history: a script's lines go into the history too.
dispatch_line(st, line, x) ==
    LET l == expand_aliases(st.s, line)
        t == [st EXCEPT !.hist = push(st.hist, line)]
    IN IF Len(l) = 1 THEN run_single_command(t, l[1], x) ELSE [t EXCEPT !.s = pipeline(t.s, l, x)]
cmd_source(st, file, x) ==
    IF file \notin DOMAIN Scripts THEN [st EXCEPT !.s = Exit(st.s, 1)]
    ELSE FoldLeft(LAMBDA t, line : dispatch_line(t, line, x), [st EXCEPT !.s = Exit(st.s, 0)], Scripts[file])

\* x: whether a program or a file can be made, and the exit code waited for.
Outcomes == {[creates |-> TRUE, code |-> 0], [creates |-> TRUE, code |-> 1], [creates |-> FALSE, code |-> 0]}
shell_start ==
    /\ sh_use = "lines" /\ entered < MaxLines /\ entered' = entered + 1
    /\ \E line \in ShLines, x \in Outcomes :
         LET r == dispatch_line([s |-> sh, hist |-> hist], line, x) IN sh' = r.s /\ hist' = r.hist
    /\ UNCHANGED <<sh_use, ed>>
ShellNext == read_line \/ shell_start

(* ------------------------------------------------------------ properties *)
\* The screen shows the line that Enter would run, through any editing and
\* browsing of the history, within the bounds of the line and of the history; and
\* coming back down out of the history gives back the line that was being typed.
ScreenShowsLine ==
    sh_use = "edit" =>
        /\ ed.screen = ed.buf /\ Len(ed.buf) < MAX_LINE
        /\ ed.idx = 0 => ed.buf = ed.typed
        /\ Len(hist) <= HISTORY_SIZE /\ ed.idx <= Len(hist)
        /\ \A i \in 1..(Len(hist) - 1) : hist[i] # hist[i + 1]

\* Between lines PWD names the directory the shell is in, and nothing but the
\* three standard descriptors and the file that echo's 2> leaves is open, unless
\* a pipe could not be made.
LinesLeaveShellSound ==
    sh_use = "lines" =>
        /\ sh.env.PWD = sh.cwd
        /\ ~sh.starved => \A fd \in DOMAIN sh.fds : fd > 2 => sh.fds[fd].kind = "file"

\* The shell at any time: the line on the screen, and its directory and descriptors
\* between lines.
ShellSound == ScreenShowsLine /\ LinesLeaveShellSound

\* cd - goes back to the directory before: "Save the old PWD into OLDPWD" (main.rs:670).
OldPwdIsPrevious == sh.env.OLDPWD # "unset" => sh.env.OLDPWD = sh.before
=============================================================================
