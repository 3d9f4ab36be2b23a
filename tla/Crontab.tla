------------------------------- MODULE Crontab -------------------------------
(***************************************************************************)
(* rebuild_user_schedule (cron_backend_linux.cpp): a user's crontab is     *)
(* read, its text is built anew from the lines that are not the bridge's   *)
(* and from the user's jobs, and it is installed, while the user edits his *)
(* crontab when he likes. Which lines the bridge wrote is only known from  *)
(* the tags: a line is one the user wrote, the tag of a job or the         *)
(* schedule line under the tag.                                            *)
(***************************************************************************)
EXTENDS Naturals, Sequences, FiniteSets

CONSTANTS
    JobIds,    \* job ids
    OwnLines,  \* lines the user may have written
    MaxLines,  \* bound on the lines of a crontab the user has edited
    MaxJobs    \* bound on the jobs of the user

ASSUME CrontabAssumption == MaxLines \in Nat /\ MaxJobs \in Nat

VARIABLES
    text,       \* the installed crontab
    loop,       \* "idle", or the loop of build_crontab_text that is running
    existing,   \* the crontab as it was read
    jobs,       \* the list of the user's jobs
    pos,        \* how far the loop has come
    skip_next,
    out

crontabVars == <<text, loop, existing, jobs, pos, skip_next, out>>
building == <<loop, existing, jobs, pos, skip_next, out>>

Line(kind, of) == [kind |-> kind, of |-> of]
Block(j) == <<Line("tag", j), Line("run", j)>>
Lines == {Line("own", l) : l \in OwnLines}
             \cup {Line(kind, j) : kind \in {"tag", "run"}, j \in JobIds}

\* the blocks of the bridge have both their lines
Whole(t) ==
    \A i \in DOMAIN t :
        /\ t[i].kind = "tag" => i < Len(t) /\ t[i + 1] = Line("run", t[i].of)
        /\ t[i].kind = "run" => i > 1 /\ t[i - 1] = Line("tag", t[i].of)

\* crontabs in which the user has written where he likes, and left blocks whole
Crontabs == {t \in UNION {[1..n -> Lines] : n \in 0..MaxLines} : Whole(t)}
Lists == UNION {[1..n -> JobIds] : n \in 0..MaxJobs}

\* Types of the state; the crontab has whole blocks, also after it was installed.
CrontabTypeOK ==
    /\ text \in Seq(Lines) /\ existing \in Seq(Lines) /\ out \in Seq(Lines)
    /\ Whole(text)
    /\ loop \in {"idle", "lines", "blocks"} /\ jobs \in Seq(JobIds)
    /\ pos \in Nat /\ skip_next \in BOOLEAN

CrontabInit ==
    /\ text = <<>>
    /\ loop = "idle" /\ existing = <<>> /\ jobs = <<>>
    /\ pos = 0 /\ skip_next = FALSE /\ out = <<>>

-----------------------------------------------------------------------------
Built == loop = "blocks" /\ pos = Len(jobs)

\* crontab -e, also between the reading and the installation, which overwrites it.
\* (The loops touch nothing but their own variables: an edit while they run is one
\* after they ran.)
Edit ==
    /\ loop = "idle" \/ Built
    /\ text' \in Crontabs
    /\ UNCHANGED building

\* read_user_crontab, for the list of the jobs that list_for_user returned; a crontab -l
\* that fails reads nothing
Read(list) ==
    /\ loop = "idle"
    /\ existing' \in {text, <<>>} /\ jobs' = list
    /\ loop' = "lines" /\ pos' = 0 /\ skip_next' = FALSE /\ out' = <<>>
    /\ UNCHANGED text

\* (mutant) the schedule line under the tag is kept
DropTagOnly ==
    /\ loop = "lines" /\ pos < Len(existing)
    /\ out' = IF existing[pos + 1].kind = "tag" THEN out ELSE Append(out, existing[pos + 1])
    /\ pos' = pos + 1
    /\ UNCHANGED <<text, loop, existing, jobs, skip_next>>

\* (mutant) skip_next is never reset
KeepAfterTag ==
    LET line == existing[pos + 1] IN
    /\ loop = "lines" /\ pos < Len(existing)
    /\ \/ line.kind = "tag" /\ skip_next' = TRUE /\ out' = out
       \/ line.kind # "tag" /\ UNCHANGED skip_next
          /\ out' = (IF skip_next THEN out ELSE Append(out, line))
    /\ pos' = pos + 1
    /\ UNCHANGED <<text, loop, existing, jobs>>

\* the loop over the lines: a tag and the line after it are dropped
KeepOrDrop ==
    LET line == existing[pos + 1] IN
    /\ loop = "lines" /\ pos < Len(existing)
    /\ \/ skip_next /\ skip_next' = FALSE /\ out' = out
       \/ ~skip_next /\ line.kind = "tag" /\ skip_next' = TRUE /\ out' = out
       \/ ~skip_next /\ line.kind # "tag" /\ out' = Append(out, line) /\ UNCHANGED skip_next
    /\ pos' = pos + 1
    /\ UNCHANGED <<text, loop, existing, jobs>>

LinesDone ==
    /\ loop = "lines" /\ pos = Len(existing)
    /\ loop' = "blocks" /\ pos' = 0
    /\ UNCHANGED <<text, existing, jobs, skip_next, out>>

\* the loop over the jobs
AppendBlock ==
    /\ loop = "blocks" /\ pos < Len(jobs)
    /\ out' = out \o Block(jobs[pos + 1])
    /\ pos' = pos + 1
    /\ UNCHANGED <<text, loop, existing, jobs, skip_next>>

\* write_user_crontab, which may fail
Write ==
    /\ Built
    /\ text' \in {out, text}
    /\ loop' = "idle" /\ existing' = <<>> /\ jobs' = <<>>
    /\ pos' = 0 /\ skip_next' = FALSE /\ out' = <<>>

CrontabNext ==
    \/ Edit
    \/ \E list \in Lists : Read(list)
    \/ KeepOrDrop \/ LinesDone \/ AppendBlock \/ Write

CrontabSpec == CrontabInit /\ [][CrontabNext]_crontabVars

-----------------------------------------------------------------------------
(* Properties *)

\* the number of own lines among the first i that were read
Rank(i) == Cardinality({j \in 1..i : existing[j].kind = "own"})

\* Whatever crontab was read, the text that is about to be installed has the user's
\* own lines as they were and in their order, then one block for each job of the list
\* in its order, and nothing else.
TextExact ==
    Built =>
        LET own == Rank(Len(existing)) IN
        /\ Len(out) = own + 2 * Len(jobs)
        /\ \A i \in DOMAIN existing :
              existing[i].kind = "own" => out[Rank(i)] = existing[i]
        /\ \A n \in DOMAIN jobs :
              /\ out[own + 2 * n - 1] = Line("tag", jobs[n])
              /\ out[own + 2 * n] = Line("run", jobs[n])
=============================================================================
