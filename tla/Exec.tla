-------------------------------- MODULE Exec --------------------------------
(***************************************************************************)
(* Running a command and capturing its output: run_process_as, run_process *)
(* and spawn_background_as (process_linux.cpp), run_process                *)
(* (process_windows.cpp), spawn_with_token and run_system_tool             *)
(* (priv_win/operations.cpp). Calls run on threads of one process, so a    *)
(* child inherits every pipe that is open when it is forked.               *)
(*                                                                         *)
(* A command is a shell and the worker it starts (run_system_tool starts   *)
(* no shell: the two end together). The worker writes its output to a pipe *)
(* that holds Cap chunks. The reader sees the end of the pipe when nobody  *)
(* is left who could write to it.                                          *)
(***************************************************************************)
EXTENDS Naturals

CONSTANTS
    Calls,      \* calls, each on a thread of its own
    Platforms,  \* a subset of {"linux", "windows"}
    Commands,   \* commands, a subset of CommandType
    Cap,        \* chunks a pipe holds
    Bound       \* chunks that are captured at most, where the code has a limit

\* out: chunks written; ends: ends by itself once they are; term: ends at SIGTERM;
\* forks: the worker goes to the background and the shell ends at once
CommandType == [out : Nat, ends : BOOLEAN, term : BOOLEAN, forks : BOOLEAN]

ASSUME ExecAssumption ==
    /\ Platforms \subseteq {"linux", "windows"} /\ Commands \subseteq CommandType
    /\ Cap \in Nat \ {0} /\ Bound \in Nat

VARIABLES
    platform,
    pc,      \* where each call is
    call,    \* its function, command and whether a timeout was given
    shell,   \* the process that is waited for
    worker,  \* the process that writes
    left,    \* chunks the worker has yet to write
    pipe,    \* chunks in the pipe
    got,     \* chunks captured
    heirs,   \* calls whose processes inherited this call's end for writing
    cut      \* how the capture was cut short: by a timeout, the limit, a failed start

vars == <<platform, pc, call, shell, worker, left, pipe, got, heirs, cut>>

LinuxFunctions == {"run_process_as", "run_process", "background"}
WindowsFunctions == {"wait_process", "spawn_with_token", "run_system_tool", "background"}
Functions == IF platform = "linux" THEN LinuxFunctions ELSE WindowsFunctions
Outs == {cmd.out : cmd \in Commands}

\* Types of the state.
TypeOK ==
    /\ platform \in Platforms
    /\ pc \in [Calls -> {"idle", "piped", "forked", "read", "wait", "drain", "done"}]
    /\ \A c \in Calls : pc[c] # "idle" =>
          call[c] \in [fun : Functions, cmd : Commands, timed : BOOLEAN]
    /\ shell \in [Calls -> {"none", "running", "exited", "reaped"}]
    /\ worker \in [Calls -> {"none", "running", "ended"}]
    /\ \A c \in Calls : \E n \in Outs \cup {0} : left[c] \in 0..n /\ got[c] \in 0..n
    /\ pipe \in [Calls -> 0..Cap]
    /\ heirs \in [Calls -> SUBSET Calls]
    /\ cut \in [Calls -> {"no", "timeout", "limit", "failed"}]

NoCommand == [out |-> 0, ends |-> TRUE, term |-> TRUE, forks |-> FALSE]

Init ==
    /\ platform \in Platforms
    /\ pc = [c \in Calls |-> "idle"]
    /\ call = [c \in Calls |-> [fun |-> "background", cmd |-> NoCommand, timed |-> FALSE]]
    /\ shell = [c \in Calls |-> "none"] /\ worker = [c \in Calls |-> "none"]
    /\ left = [c \in Calls |-> 0] /\ pipe = [c \in Calls |-> 0] /\ got = [c \in Calls |-> 0]
    /\ heirs = [c \in Calls |-> {}]
    /\ cut = [c \in Calls |-> "no"]

-----------------------------------------------------------------------------
\* (mutant) run_process_as waits for the child before it reads
ReadFirstPopen == {"run_process", "run_system_tool"}
\* functions that read to the end of the pipe and then wait for the process
ReadFirst == {"run_process_as", "run_process", "run_system_tool"}
\* functions that stop reading at a limit
Limited == {"spawn_with_token", "run_system_tool"}

\* c's end for writing is open in the daemon, where a fork copies it. (popen opens
\* its pipe close-on-exec.)
Open(c) == pc[c] \in {"piped", "forked"} /\ call[c].fun \notin {"run_process", "background"}

\* a child started by f inherits what is open: on Windows only if it is to
\* inherit handles at all
Inherits(f) == ~(platform = "windows" /\ f = "background")

-----------------------------------------------------------------------------
(* The calling thread *)

\* the arguments are checked and the pipe is made
Begin(c, f, cmd, timed) ==
    /\ pc[c] = "idle"
    /\ f \in Functions
    /\ f = "run_system_tool" => timed /\ ~cmd.forks
    /\ f = "background" => ~timed
    /\ call' = [call EXCEPT ![c] = [fun |-> f, cmd |-> cmd, timed |-> timed]]
    /\ pc' = [pc EXCEPT ![c] = "piped"]
    /\ UNCHANGED <<platform, shell, worker, left, pipe, got, heirs, cut>>

\* fork and exec, or CreateProcess. The child may fail before it runs the command
\* (exit codes 126 and 127 on Linux).
Start(c) ==
    /\ pc[c] = "piped"
    /\ pc' = [pc EXCEPT ![c] = "forked"]
    /\ heirs' = [d \in Calls |-> IF d # c /\ Open(d) /\ Inherits(call[c].fun)
                                 THEN heirs[d] \cup {c} ELSE heirs[d]]
    /\ \/ /\ shell' = [shell EXCEPT ![c] = "running"]
          /\ worker' = [worker EXCEPT ![c] = "running"]
          /\ left' = [left EXCEPT ![c] = call[c].cmd.out]
          /\ cut' = cut
       \/ /\ platform = "linux"
          /\ shell' = [shell EXCEPT ![c] = "exited"]
          /\ worker' = [worker EXCEPT ![c] = "ended"]
          /\ cut' = [cut EXCEPT ![c] = "failed"]
          /\ left' = left
    /\ UNCHANGED <<platform, call, pipe, got>>

\* no pipe, no process: the call returns an error
StartFails(c) ==
    /\ pc[c] = "piped"
    /\ pc' = [pc EXCEPT ![c] = "done"]
    /\ cut' = [cut EXCEPT ![c] = "failed"]
    /\ UNCHANGED <<platform, call, shell, worker, left, pipe, got, heirs>>

\* the parent closes its end for writing
CloseWriteEnd(c) ==
    /\ pc[c] = "forked"
    /\ pc' = [pc EXCEPT ![c] = IF call[c].fun = "background" THEN "done"
                               ELSE IF call[c].fun \in ReadFirst THEN "read" ELSE "wait"]
    /\ UNCHANGED <<platform, call, shell, worker, left, pipe, got, heirs, cut>>

Reading(c) == pc[c] \in {"read", "drain"}
AfterReading(c) == IF pc[c] = "read" THEN "wait" ELSE "done"

\* (mutant) an empty read is taken for data
ReadAnyhow(c) ==
    /\ Reading(c)
    /\ pipe' = [pipe EXCEPT ![c] = @ - 1]
    /\ got' = [got EXCEPT ![c] = @ + 1]
    /\ UNCHANGED <<platform, pc, call, shell, worker, left, heirs, cut>>

\* read, ReadFile, fgets: a chunk is appended, or over the limit dropped, and the
\* pipe closed
Read(c) ==
    /\ Reading(c) /\ pipe[c] > 0
    /\ pipe' = [pipe EXCEPT ![c] = @ - 1]
    /\ IF call[c].fun \in Limited /\ got[c] = Bound
       THEN /\ cut' = [cut EXCEPT ![c] = "limit"]
            /\ pc' = [pc EXCEPT ![c] = AfterReading(c)]
            /\ got' = got
       ELSE got' = [got EXCEPT ![c] = @ + 1] /\ UNCHANGED <<pc, cut>>
    /\ UNCHANGED <<platform, call, shell, worker, left, heirs>>

Over(c) == shell[c] # "running" /\ worker[c] # "running"

\* (mutant) the end of the shell is taken for the end of the output
EofAtExit(c) ==
    /\ Reading(c) /\ pipe[c] = 0
    /\ shell[c] # "running"
    /\ pc' = [pc EXCEPT ![c] = AfterReading(c)]
    /\ UNCHANGED <<platform, call, shell, worker, left, pipe, got, heirs, cut>>

\* the end of the pipe: empty, and nobody holds the other end any more
Eof(c) ==
    /\ Reading(c) /\ pipe[c] = 0
    /\ Over(c) /\ \A d \in heirs[c] : Over(d)
    /\ pc' = [pc EXCEPT ![c] = AfterReading(c)]
    /\ UNCHANGED <<platform, call, shell, worker, left, pipe, got, heirs, cut>>

AfterWait(c) == IF call[c].fun \in ReadFirst THEN "done" ELSE "drain"

\* (mutant) a process that was read to the end is not waited for
WaitNot(c) ==
    /\ pc[c] = "wait"
    /\ pc' = [pc EXCEPT ![c] = AfterWait(c)]
    /\ UNCHANGED <<platform, call, shell, worker, left, pipe, got, heirs, cut>>

\* waitpid, pclose, WaitForSingleObject
Wait(c) ==
    /\ pc[c] = "wait" /\ shell[c] = "exited"
    /\ shell' = [shell EXCEPT ![c] = "reaped"]
    /\ pc' = [pc EXCEPT ![c] = AfterWait(c)]
    /\ UNCHANGED <<platform, call, worker, left, pipe, got, heirs, cut>>

\* WaitForSingleObject times out and TerminateProcess ends the process that was
\* waited for, and no other
WaitTimesOut(c) ==
    /\ pc[c] = "wait" /\ platform = "windows" /\ call[c].timed /\ shell[c] = "running"
    /\ shell' = [shell EXCEPT ![c] = "reaped"]
    /\ worker' = IF call[c].fun = "run_system_tool" THEN [worker EXCEPT ![c] = "ended"] ELSE worker
    /\ cut' = [cut EXCEPT ![c] = "timeout"]
    /\ pc' = [pc EXCEPT ![c] = AfterWait(c)]
    /\ UNCHANGED <<platform, call, left, pipe, got, heirs>>

-----------------------------------------------------------------------------
(* The command *)

\* the pipe cannot be read any more, or the output does not go to it
Unread(c) == call[c].fun = "background" \/ pc[c] = "done" \/ cut[c] = "limit"

WorkerWrites(c) ==
    /\ worker[c] = "running" /\ left[c] > 0
    /\ \/ /\ ~Unread(c) /\ pipe[c] < Cap
          /\ pipe' = [pipe EXCEPT ![c] = @ + 1]
          /\ left' = [left EXCEPT ![c] = @ - 1]
       \/ /\ Unread(c)
          /\ left' = [left EXCEPT ![c] = 0]
          /\ pipe' = pipe
    /\ UNCHANGED <<platform, pc, call, shell, worker, got, heirs, cut>>

WorkerEnds(c) ==
    /\ worker[c] = "running" /\ left[c] = 0 /\ call[c].cmd.ends
    /\ worker' = [worker EXCEPT ![c] = "ended"]
    /\ UNCHANGED <<platform, pc, call, shell, left, pipe, got, heirs, cut>>

ShellExits(c) ==
    /\ shell[c] = "running" /\ (worker[c] = "ended" \/ call[c].cmd.forks)
    /\ shell' = [shell EXCEPT ![c] = "exited"]
    /\ UNCHANGED <<platform, pc, call, worker, left, pipe, got, heirs, cut>>

\* timeout(1) around the shell sends SIGTERM to the whole process group. Once the
\* shell has ended it has ended as well.
TimeoutKills(c) ==
    /\ platform = "linux" /\ call[c].timed /\ call[c].cmd.term
    /\ shell[c] = "running"
    /\ shell' = [shell EXCEPT ![c] = "exited"]
    /\ worker' = [worker EXCEPT ![c] = "ended"]
    /\ left' = [left EXCEPT ![c] = 0]
    /\ cut' = [cut EXCEPT ![c] = "timeout"]
    /\ UNCHANGED <<platform, pc, call, pipe, got, heirs>>

-----------------------------------------------------------------------------
Thread(c) ==
    \/ Start(c)
    \/ StartFails(c)
    \/ CloseWriteEnd(c)
    \/ Read(c)
    \/ Eof(c)
    \/ Wait(c)
    \/ WaitTimesOut(c)

Process(c) ==
    \/ WorkerWrites(c)
    \/ WorkerEnds(c)
    \/ ShellExits(c)
    \/ TimeoutKills(c)

Next ==
    \/ \E c \in Calls, f \in Functions, cmd \in Commands, timed \in BOOLEAN :
          Begin(c, f, cmd, timed)
    \/ \E c \in Calls : Thread(c)
    \/ \E c \in Calls : Process(c)

\* Threads and processes are scheduled, and timers fire.
Fairness == \A c \in Calls : WF_vars(Thread(c)) /\ WF_vars(Process(c))

Spec == Init /\ [][Next]_vars /\ Fairness

-----------------------------------------------------------------------------
(* Properties *)

\* What a call needs to return, besides being read to the end of its pipe: where
\* the pipe is read first, a command that ends by itself or by timeout(1); where
\* the process is waited for first, one that ends by itself, and fits into the
\* pipe, or leaves the shell, or is given up after a timeout.
Returnable(c) ==
    LET cmd == call[c].cmd IN
    CASE call[c].fun \in {"run_process_as", "run_process"} ->
            cmd.ends \/ (call[c].timed /\ cmd.term /\ ~cmd.forks)
      [] call[c].fun \in {"wait_process", "spawn_with_token"} ->
            cmd.ends /\ (cmd.forks \/ call[c].timed \/ cmd.out <= Cap)
      [] OTHER -> cmd.ends

\* A call returns, unless its own command does not end, or a command that another
\* thread started between its pipe and its fork.
Returns ==
    \A c \in Calls :
        pc[c] # "idle" ~> (pc[c] = "done" \/ \E d \in heirs[c] \cup {c} : ~Returnable(d))

\* A call that no timeout, limit or failure cut short has captured all of the
\* output, also what a worker writes after its shell has ended.
OutputComplete ==
    \A c \in Calls :
        (pc[c] = "done" /\ call[c].fun # "background" /\ cut[c] = "no") => got[c] = call[c].cmd.out

\* When a call returns, its process has been waited for and, unless the reader
\* gave up at the limit, nothing that could still write is running.
NothingLeftBehind ==
    \A c \in Calls :
        (pc[c] = "done" /\ call[c].fun # "background") =>
            /\ shell[c] \in {"none", "reaped"}
            /\ cut[c] # "limit" => worker[c] # "running"
=============================================================================
