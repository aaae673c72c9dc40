------------------------------ MODULE Autoboot -------------------------------
(***************************************************************************)
(* tools/autoboot.py: a script that boots the machine, logs in over the    *)
(* serial console and runs a list of steps (shell commands, key presses)   *)
(* in the order they were given.                                           *)
(*                                                                         *)
(* The console carries pieces of text.  What the script waits for (the     *)
(* login prompt, the shell's prompt, the sentinel that ends a command) is  *)
(* a mark of two halves, since a kernel message may come between any two   *)
(* bytes; the echo of a command, its output and the echo of the line that  *)
(* asks for the sentinel are one piece each, in the order that the comment *)
(* of command_output gives them.  No command's text and no pushed file has *)
(* the form of a sentinel, and no two commands have the same text.         *)
(*                                                                         *)
(* External: the guest's terminal and shell, its kernel, QEMU's process.   *)
(***************************************************************************)
EXTENDS Integers, SequencesExt

CONSTANTS Scripts,      \* the lists of steps to try
          Statuses,     \* exit statuses of commands, 0 among them
          MaxKernel     \* bound: kernel messages

Kinds == {"cmd",        \* a command that prints a line
          "text",       \* one whose output does not end in a newline
          "bg",         \* one that ends in & and prints later
          "like",       \* one whose output is a blank line, its own text or
                        \* a line that looks like a prompt
          "reads",      \* one that reads a line of its standard input
          "prints",     \* one whose output has the form of a sentinel
          "key"}        \* a key press, sent to QEMU's monitor

ASSUME ScriptAssumption == /\ Scripts \subseteq Seq(Kinds)
                           /\ 0 \in Statuses /\ Statuses \subseteq Nat
                           /\ MaxKernel \in Nat

VARIABLES
    steps,      \* the list of steps
    push,       \* a --push is still to be done
    at,         \* where main is: "boot", "login", "push" and "wait" are calls
                \* of expect, "ready" the loop over the steps
    next,       \* the next step
    checked,    \* expect has looked at the clock and at QEMU, and may read
    buf,        \* Console.buf
    got,        \* the exit status the script took for each step, or None
    reported,   \* the pieces that it reported as the output of each step
    rc,         \* main's result
    out,        \* the terminal's output, not yet read
    typed,      \* lines that the guest has not read yet
    shell,      \* the guest: "boot", "getty", "shell"
    writing,    \* what the guest is writing to the terminal
    late,       \* background commands that have not printed yet
    status,     \* the shell's $?
    kernel,     \* kernel messages so far
    alive,      \* the QEMU process runs
    exits,      \* history: the status with which each command ended, or None
    log,        \* history: the steps in the order they reached the guest
    refused,    \* history: a key was refused
    split       \* history: a kernel message came between the halves of a mark

script == <<steps, push, at, next, checked, buf, got, reported, rc>>
guest == <<typed, shell, writing, late, status, kernel>>
history == <<exits, log, refused, split>>
vars == <<script, out, guest, alive, history>>

None == -1
Half(mark, h, s) == [what |-> mark, half |-> h, val |-> s]
Mark(mark, s) == <<Half(mark, 1, s), Half(mark, 2, s)>>
Line(n) == [what |-> "line", half |-> 0, val |-> n]
Text(n) == [what |-> "text", half |-> 0, val |-> n]
Like(n) == [what |-> "like", half |-> 0, val |-> n]
Echo(n) == [what |-> "echo", half |-> 0, val |-> n]
Ask == [what |-> "ask", half |-> 0, val |-> 0]
Shown == {"line", "text", "like", "echo"}   \* what comes from a command
Message == [what |-> "kernel", half |-> 0, val |-> 0]

Init == /\ steps \in Scripts
        /\ push \in BOOLEAN
        /\ at = "boot" /\ next = 1 /\ checked = FALSE /\ buf = <<>> /\ rc = 0
        /\ got = [n \in DOMAIN steps |-> None]
        /\ reported = [n \in DOMAIN steps |-> {}]
        /\ out = <<>> /\ typed = <<>> /\ shell = "boot" /\ writing = <<>>
        /\ late = {} /\ status = 0 /\ kernel = 0 /\ alive = TRUE
        /\ exits = [n \in DOMAIN steps |-> None]
        /\ log = <<>> /\ refused = FALSE /\ split = FALSE
------------------------------------------------------------------------------
(* expect: look for the pattern, give up, or read some more.               *)

Expecting == at \in {"boot", "login", "push", "wait"}

Pattern == CASE at = "boot" -> "login" [] at = "login" -> "prompt"
             [] OTHER -> "done"

\* Where a match of the pattern ends: its halves are next to each other.
MatchEnds(b) == {n \in 2..Len(b) : /\ b[n-1].what = Pattern /\ b[n-1].half = 1
                                   /\ b[n].what = Pattern /\ b[n].half = 2}
Matched == MatchEnds(buf) # {}
Consumed == SubSeq(buf, 1, Min(MatchEnds(buf)))

\* Mutation: the match is left in the buffer.
NothingTaken == buf

Rest == SubSeq(buf, Len(Consumed) + 1, Len(buf))

\* command_output goes by lines.  Kernel messages are lines, and are kept; they
\* and prompts are not followed here.
EndsLine(p) == \/ p.what \in {"line", "like", "kernel", "echo", "ask"}
               \/ p.what = "done" /\ p.half = 2
SameLine(c, j, m) == \A i \in DOMAIN c :
    (j <= i /\ i < m) \/ (m <= i /\ i < j) => ~EndsLine(c[i])
LineOf(c, m) == {j \in DOMAIN c : SameLine(c, j, m)}

\* A line goes if any of it is of our sentinel or of the line that asks for it,
\* and if the whole of it is blank, the command's text or like a prompt.
Scaffolding(c, n, m) ==
    \/ \E j \in LineOf(c, m) : c[j].what \in {"done", "ask"}
    \/ LineOf(c, m) = {m} /\ (c[m] = Echo(n) \/ c[m].what = "like")

\* Mutation: only the match is returned, not what came before it.
OnlyTheMatch(c, n) == {}

OwnOutput(c, n) ==
    {c[m] : m \in {k \in DOMAIN c : c[k].what \in Shown /\ ~Scaffolding(c, n, k)}}

Fail == /\ at' = "ended" /\ rc' = 1
        /\ UNCHANGED <<steps, push, next, checked, buf, got, reported, out,
                       guest, alive, history>>

AtLoopHead == Expecting /\ ~checked /\ ~Matched

\* Mutation: only the boot has a time limit.
OnlyBootTimesOut == AtLoopHead /\ at = "boot" /\ Fail

TimeOut == AtLoopHead /\ Fail
SeesExit == AtLoopHead /\ ~alive /\ Fail
ConsoleClosed == Expecting /\ checked /\ ~alive /\ out = <<>> /\ Fail

MayRead(c) == /\ checked' = c
              /\ UNCHANGED <<steps, push, at, next, got, reported, rc, guest,
                             alive, history>>

Check == AtLoopHead /\ alive /\ MayRead(TRUE) /\ UNCHANGED <<buf, out>>

\* Mutation: a chunk replaces what was read before it.
ChunkOnly(k) == SubSeq(out, 1, k)

Appended(k) == buf \o SubSeq(out, 1, k)

Read == /\ Expecting /\ checked
        /\ \E k \in 1..Len(out) : /\ buf' = Appended(k)
                                  /\ out' = SubSeq(out, k + 1, Len(out))
        /\ MayRead(FALSE)

NothingToRead == /\ Expecting /\ checked /\ out = <<>>
                 /\ MayRead(FALSE) /\ UNCHANGED <<buf, out>>
------------------------------------------------------------------------------
(* main.                                                                   *)

Type(lines) == typed' = typed \o lines

LoginSeen == /\ at = "boot" /\ ~checked /\ Matched
             /\ buf' = Rest /\ at' = "login" /\ Type(<<<<"root", 0>>>>)
             /\ UNCHANGED <<steps, push, next, checked, got, reported, rc, out,
                            shell, writing, late, status, kernel, alive, history>>

\* The shell's prompt after the login, or the sentinel of a push, whose status
\* is not looked at.
Ready == /\ at \in {"login", "push"} /\ ~checked /\ Matched
         /\ buf' = Rest /\ at' = "ready"
         /\ UNCHANGED <<steps, push, next, checked, got, reported, rc, out,
                        guest, alive, history>>

\* Mutation: the last status is the result.
LastStatus(s) == s

Result(s) == IF s # 0 THEN s ELSE rc

\* The sentinel of the command before next.
SentinelSeen ==
    LET n == next - 1
        s == Last(Consumed).val
    IN  /\ at = "wait" /\ ~checked /\ Matched
        /\ buf' = Rest /\ at' = "ready"
        /\ got' = [got EXCEPT ![n] = s]
        /\ reported' = [reported EXCEPT ![n] = OwnOutput(Consumed, n)]
        /\ rc' = Result(s)
        /\ UNCHANGED <<steps, push, next, checked, out, guest, alive, history>>

SendPush == /\ at = "ready" /\ push
            /\ push' = FALSE /\ at' = "push"
            /\ Type(<<<<"push", 0>>, <<"echo", 0>>>>)
            /\ UNCHANGED <<steps, next, checked, buf, got, reported, rc, out,
                           shell, writing, late, status, kernel, alive, history>>

HasStep == at = "ready" /\ ~push /\ next <= Len(steps)

\* Mutation: the script types on without waiting for the sentinel.
TypesOn == "ready"

AfterCommand == "wait"

SendCommand == /\ HasStep /\ steps[next] # "key"
               /\ next' = next + 1 /\ at' = AfterCommand
               /\ Type(<<<<"step", next>>, <<"echo", 0>>>>)
               /\ UNCHANGED <<steps, push, checked, buf, got, reported, rc, out,
                              shell, writing, late, status, kernel, alive,
                              history>>

SendKey == /\ HasStep /\ steps[next] = "key" /\ alive
           /\ \E err \in BOOLEAN :
                /\ rc' = IF err THEN 1 ELSE rc
                /\ refused' = (refused \/ err)
           /\ next' = next + 1 /\ log' = Append(log, next)
           /\ UNCHANGED <<steps, push, at, checked, buf, got, reported, out,
                          guest, alive, exits, split>>

\* An error that main does not catch: a write to a QEMU that has gone, or a
\* file to push that cannot be read.
Raises == /\ at = "ready"
          /\ push \/ (~alive /\ next <= Len(steps))
          /\ Fail

Finish == /\ at = "ready" /\ ~push /\ next > Len(steps)
          /\ at' = "ended"
          /\ UNCHANGED <<steps, push, next, checked, buf, got, reported, rc, out,
                         guest, alive, history>>
------------------------------------------------------------------------------
(* The guest.                                                              *)

Idle == alive /\ writing = <<>>

BootUp == /\ Idle /\ shell = "boot"
          /\ shell' = "getty" /\ writing' = Mark("login", 0)
          /\ UNCHANGED <<script, out, typed, late, status, kernel, alive, history>>

LogIn == /\ Idle /\ shell = "getty" /\ typed # <<>>
         /\ shell' = "shell" /\ typed' = Tail(typed)
         /\ writing' = Mark("prompt", 0)
         /\ UNCHANGED <<script, out, late, status, kernel, alive, history>>

NextLine(kind) == /\ Idle /\ shell = "shell"
                  /\ typed # <<>> /\ Head(typed)[1] = kind

Printed(n) == CASE steps[n] = "cmd" -> <<Line(n)>>
                [] steps[n] = "text" -> <<Text(n)>>
                [] steps[n] = "like" -> <<Like(n)>>
                [] steps[n] = "reads" -> <<Ask>>
                [] steps[n] = "prints" -> Mark("done", 0) \o <<Line(n)>>
                [] OTHER -> <<>>

\* The terminal echoes a line when it is read.
Output(n) == <<Echo(n)>> \o Printed(n)

\* A command runs; one that reads takes the line that was typed after it.
RunCommand ==
    LET n == Head(typed)[2] IN
    /\ NextLine("step")
    /\ \E s \in IF steps[n] = "bg" THEN {0} ELSE Statuses :
         /\ status' = s
         /\ exits' = [exits EXCEPT ![n] = s]
    /\ typed' = SubSeq(typed, IF steps[n] = "reads" THEN 3 ELSE 2, Len(typed))
    /\ writing' = Output(n) \o Mark("prompt", 0)
    /\ late' = late \cup (IF steps[n] = "bg" THEN {n} ELSE {})
    /\ log' = Append(log, n)
    /\ UNCHANGED <<script, out, shell, kernel, alive, refused, split>>

WritePushed == /\ NextLine("push")
               /\ status' \in Statuses /\ typed' = Tail(typed)
               /\ writing' = Mark("prompt", 0)
               /\ UNCHANGED <<script, out, shell, late, kernel, alive, history>>

EchoSentinel ==
    /\ NextLine("echo")
    /\ typed' = Tail(typed) /\ status' = 0
    /\ writing' = <<Ask>> \o Mark("done", status) \o Mark("prompt", 0)
    /\ UNCHANGED <<script, out, shell, late, kernel, alive, history>>

Emit == /\ alive /\ writing # <<>>
        /\ out' = Append(out, Head(writing)) /\ writing' = Tail(writing)
        /\ UNCHANGED <<script, typed, shell, late, status, kernel, alive, history>>

InMark == writing # <<>> /\ Head(writing).half = 2

\* The terminal does not break up what one process writes at once.
PrintLate(n) ==
    /\ alive /\ ~InMark
    /\ out' = Append(out, Line(n)) /\ late' = late \ {n}
    /\ UNCHANGED <<script, typed, shell, writing, status, kernel, alive, history>>

\* The kernel does.
KernelMessage ==
    /\ alive /\ kernel < MaxKernel
    /\ kernel' = kernel + 1 /\ out' = Append(out, Message)
    /\ split' = (split \/ InMark)
    /\ UNCHANGED <<script, typed, shell, writing, late, status, alive, exits, log,
                   refused>>

QemuExits == /\ alive /\ alive' = FALSE
             /\ UNCHANGED <<script, out, guest, history>>

Expect == \/ TimeOut \/ SeesExit \/ ConsoleClosed \/ Check \/ Read
          \/ NothingToRead
Main == \/ LoginSeen \/ Ready \/ SentinelSeen \/ SendPush \/ SendCommand
        \/ SendKey \/ Raises \/ Finish
Guest == \/ BootUp \/ LogIn \/ RunCommand \/ WritePushed \/ EchoSentinel \/ Emit
         \/ \E n \in late : PrintLate(n)
         \/ KernelMessage \/ QemuExits

Next == at # "ended" /\ (Expect \/ Main \/ Guest)

Spec == Init /\ [][Next]_vars

(***************************************************************************)
(* Fairness.  The script runs, and expect's deadline passes if it goes     *)
(* round its loop for ever.  Nothing is asked of the guest.                *)
(***************************************************************************)
FairSpec == Spec /\ WF_vars(at # "ended" /\ (Expect \/ Main)) /\ SF_vars(TimeOut)
------------------------------------------------------------------------------
(* Properties.                                                             *)

\* The state has the expected types; the result is one of the statuses or 1.
TypeOK == /\ at \in {"boot", "login", "push", "ready", "wait", "ended"}
          /\ next \in 1..Len(steps) + 1
          /\ got \in [DOMAIN steps -> Statuses \cup {None}]
          /\ reported \in [DOMAIN steps ->
                  SUBSET [what : Shown, half : {0}, val : DOMAIN steps]]
          /\ rc \in Statuses \cup {1}
          /\ late \subseteq DOMAIN steps

\* No command up to step n prints text in the form of a sentinel.
Trusted(n) == \A m \in 1..n : steps[m] # "prints"

\* "A sentinel makes the end of each command unambiguous": the status that the
\* script takes for a command is the one with which that command ended.
StatusIsItsOwn == \A n \in DOMAIN steps :
    got[n] # None /\ Trusted(n) => got[n] = exits[n]

\* The help of -k: "ordering with -c is preserved".  Steps take effect in the
\* guest one by one in the order given, so that a key is only pressed when the
\* commands before it have run.
OrderIsKept == \A n \in DOMAIN log : Trusted(n - 1) => log[n] = n

\* A command that prints a line has that line reported with it, and what is
\* reported with a command is its own, or a line of a background command before
\* it.  (A line that is blank, the command's own text or like a prompt is dropped;
\* the echo of the command is its own, and may be reported.)
OutputIsItsOwn == \A n \in DOMAIN steps : got[n] # None /\ Trusted(n) =>
    /\ steps[n] = "cmd" => Line(n) \in reported[n]
    /\ \A p \in reported[n] :
          p.val = n \/ (p = Line(p.val) /\ p.val < n /\ steps[p.val] = "bg")

\* command_output: "Drop everything that is our own scaffolding and keep the
\* rest", for a command whose output does not end in a newline: of what comes
\* from the command the output is reported, and its echo is not.
RestIsKept == \A n \in DOMAIN steps : got[n] # None /\ steps[n] = "text" =>
    {p \in reported[n] : p.val = n} = {Text(n)}

\* What the guest has written to the end is seen, in whatever chunks it comes:
\* expect does not wait for something that it has read, unless a kernel message
\* split it or a command took the line that asks for the sentinel.
AnswerIsSeen ==
    /\ Expecting /\ alive /\ shell # "boot"
    /\ writing = <<>> /\ typed = <<>> /\ out = <<>>
    /\ ~split /\ \A n \in DOMAIN log : steps[log[n]] # "reads"
    => Matched

\* The script exits with 0 only if every command ran and ended with 0 and every
\* key was accepted.
SuccessIsReal ==
    at = "ended" /\ rc = 0 /\ Trusted(Len(steps)) =>
        /\ Len(log) = Len(steps) /\ ~refused
        /\ \A n \in DOMAIN steps : steps[n] = "key" \/ exits[n] = 0

\* Whatever the guest does, the script comes to an end.
ScriptEnds == <>(at = "ended")
==============================================================================
