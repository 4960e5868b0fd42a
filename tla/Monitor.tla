------------------------------ MODULE Monitor ------------------------------
(***************************************************************************)
(* The debug monitor of monitor.rs: one thread per connection over a ring  *)
(* of log lines that any thread of the app appends to.                     *)
(*                                                                         *)
(* Three of its services are here: the event stream that tails the ring,   *)
(* /shell, which runs a command under a time limit, and the two jobs that  *)
(* make images, /imagegen and /concept.  A log line is its number.  The    *)
(* scores of a picture are 0..Best.                                        *)
(***************************************************************************)
EXTENDS Integers, Sequences, SequencesExt, Retained

CONSTANTS
    Loggers,    \* threads that log
    Jobs,       \* connections that make images
    LogCap,     \* LOG_CAP
    Backlog,    \* lines a new reader starts back (200)
    PipeCap,    \* what a pipe holds
    OutCap,     \* SHELL_OUT_CAP
    MaxOut,     \* bound: what a command writes
    MaxLines,   \* bound: log lines
    MaxTries,   \* max_tries
    Best        \* the highest score; also the threshold

ASSUME MonitorAssumption ==
    /\ LogCap \in Nat \ {0} /\ Backlog \in Nat \ {0} /\ PipeCap \in Nat \ {0}
    /\ OutCap \in Nat /\ MaxOut \in Nat /\ MaxLines \in Nat
    /\ MaxTries \in Nat \ {0} /\ Best \in Nat

VARIABLES
    seq,        \* SEQ
    holding,    \* per thread, the number it has drawn and not yet pushed
    ring,       \* LOGS
    follower,   \* the event stream: [on, last, todo]
    seen,       \* the lines the page has been sent
    cmd,        \* the /shell command
    job,        \* per job, where it stands
    genSeq,     \* GEN_SEQ
    artifacts   \* the files: per artifact number, the picture last written

ringVars == <<seq, holding, ring, follower, seen>>
jobVars == <<job, genSeq, artifacts>>
monVars == <<ringVars, cmd, jobVars>>

Lines == 1..MaxLines
NoPicture == -1

Resting == [state |-> "idle", want |-> 0, wrote |-> 0, kept |-> FALSE,
            out |-> 0, ok |-> FALSE]
Asleep == [state |-> "idle", kind |-> "concept", try |-> 0, path |-> NoPicture,
           best |-> -1, bestPath |-> NoPicture, scores |-> {}]

(* Types, and the ring never holds more than LOG_CAP lines. *)
MonitorTypeOK ==
    /\ seq \in 0..MaxLines /\ holding \in [Loggers -> 0..MaxLines]
    /\ ring \in Seq(Lines) /\ Len(ring) <= LogCap
    /\ follower.on \in BOOLEAN /\ follower.last \in 0..MaxLines
    /\ follower.todo \in Seq(Lines) /\ seen \subseteq Lines
    /\ cmd.state \in {"idle", "running", "exited", "killed", "answered"}
    /\ cmd.wrote \in 0..cmd.want /\ cmd.out \in 0..OutCap
    /\ \A j \in Jobs : job[j].try \in 0..MaxTries /\ job[j].best \in -1..Best
    /\ genSeq \in Nat /\ DOMAIN artifacts \subseteq 0..genSeq - 1

MonitorInit ==
    /\ seq = 0 /\ holding = [t \in Loggers |-> 0] /\ ring = <<>>
    /\ follower = [on |-> FALSE, last |-> 0, todo |-> <<>>] /\ seen = {}
    /\ cmd = Resting
    /\ job = [j \in Jobs |-> Asleep] /\ genSeq = 0
    /\ artifacts = <<>>

-----------------------------------------------------------------------------
(*                       log() and the event stream                        *)

(* log: the number is drawn under one lock ... *)
Draws(t) ==
    /\ holding[t] = 0 /\ seq < MaxLines
    /\ seq' = seq + 1
    /\ holding' = [holding EXCEPT ![t] = seq + 1]
    /\ UNCHANGED <<ring, follower, seen, cmd, jobVars>>

(* Mutant: the ring is trimmed when it is over its size. *)
TrimmedLate(q) == IF Len(q) > LogCap THEN Tail(q) ELSE q

Trimmed(q) == IF Len(q) >= LogCap THEN Tail(q) ELSE q

(* ... and the line is pushed under another. *)
Pushes(t) ==
    /\ holding[t] # 0
    /\ ring' = Append(Trimmed(ring), holding[t])
    /\ holding' = [holding EXCEPT ![t] = 0]
    /\ UNCHANGED <<seq, follower, seen, cmd, jobVars>>

(* A page opens the stream, or its EventSource does again with the last    *)
(* number it was sent.                                                     *)
OpensStream ==
    /\ ~follower.on
    /\ follower' = [follower EXCEPT !.on = TRUE,
                    !.last = IF follower.last = 0 /\ Len(ring) > Backlog
                             THEN ring[Len(ring) - Backlog + 1]
                             ELSE follower.last]
    /\ UNCHANGED <<seq, holding, ring, seen, cmd, jobVars>>

DropsStream ==
    /\ follower.on
    /\ follower' = [follower EXCEPT !.on = FALSE, !.todo = <<>>]
    /\ UNCHANGED <<seq, holding, ring, seen, cmd, jobVars>>

(* sse: the lines above the last number sent, collected under the lock. *)
Polls ==
    /\ follower.on /\ follower.todo = <<>>
    /\ follower' = [follower EXCEPT !.todo = Retain(ring, {n \in Lines : n > follower.last})]
    /\ UNCHANGED <<seq, holding, ring, seen, cmd, jobVars>>

(* Mutant: the cursor stays where the stream began. *)
Kept(n) == follower.last

Cursor(n) == n

(* One line written; the cursor is the last one written. *)
Sends ==
    /\ follower.on /\ follower.todo # <<>>
    /\ LET n == Head(follower.todo)
       IN  /\ follower' = [follower EXCEPT !.last = Cursor(n), !.todo = Tail(@)]
           /\ seen' = seen \union {n}
    /\ UNCHANGED <<seq, holding, ring, cmd, jobVars>>

-----------------------------------------------------------------------------
(*                                 /shell                                  *)

(* Commands differ in what they write and in whether something they leave  *)
(* behind keeps their output open.                                         *)
Command(want, kept) ==
    /\ cmd.state = "idle"
    /\ cmd' = [Resting EXCEPT !.state = "running", !.want = want, !.kept = kept]
    /\ UNCHANGED <<ringVars, jobVars>>

(* The command writes into the pipe, which nobody reads before it ends. *)
Writes ==
    /\ cmd.state = "running" /\ cmd.wrote < cmd.want /\ cmd.wrote < PipeCap
    /\ cmd' = [cmd EXCEPT !.wrote = @ + 1]
    /\ UNCHANGED <<ringVars, jobVars>>

(* It exits when it has written everything ... *)
Exits ==
    /\ cmd.state = "running" /\ cmd.wrote = cmd.want
    /\ cmd' = [cmd EXCEPT !.state = "exited"]
    /\ UNCHANGED <<ringVars, jobVars>>

(* ... or try_wait finds SHELL_TIMEOUT_S over. *)
Kills ==
    /\ cmd.state = "running"
    /\ cmd' = [cmd EXCEPT !.state = "killed"]
    /\ UNCHANGED <<ringVars, jobVars>>

Over == cmd.state \in {"exited", "killed"}

(* read_to_end returns once nothing holds the pipe; then the answer. *)
Replies ==
    /\ Over /\ ~cmd.kept
    /\ cmd' = [cmd EXCEPT !.state = "answered",
                 !.out = IF cmd.wrote > OutCap THEN OutCap ELSE cmd.wrote,
                 !.ok = cmd.state # "killed"]
    /\ UNCHANGED <<ringVars, jobVars>>

-----------------------------------------------------------------------------
(*                        /imagegen and /concept                           *)

Asked(j, kind) ==
    /\ job[j].state = "idle"
    /\ job' = [job EXCEPT ![j] = [Asleep EXCEPT !.state = "try", !.kind = kind,
                                                !.try = 1]]
    /\ UNCHANGED <<ringVars, cmd, genSeq, artifacts>>

(* Mutant: the name has the time and no number. *)
SameName == 0

(* GEN_SEQ.fetch_add. *)
NextName == genSeq

(* generate_image has its picture and draws a name for it ... *)
Named(j) ==
    /\ job[j].state = "try"
    /\ job' = [job EXCEPT ![j].state = "named", ![j].path = NextName]
    /\ genSeq' = genSeq + 1
    /\ UNCHANGED <<ringVars, cmd, artifacts>>

(* ... and writes it. *)
Stored(j) ==
    /\ job[j].state = "named"
    /\ artifacts' = [n \in DOMAIN artifacts \union {job[j].path} |->
                       IF n = job[j].path THEN <<j, job[j].try>> ELSE artifacts[n]]
    /\ job' = [job EXCEPT ![j].state = IF job[j].kind = "imagegen"
                                       THEN "done" ELSE "stored"]
    /\ UNCHANGED <<ringVars, cmd, genSeq>>

AfterTry(r) == IF r.try = MaxTries THEN [r EXCEPT !.state = "stopped"]
               ELSE [r EXCEPT !.state = "try", !.try = @ + 1]

(* The design, the image, the file or the score fails: the next try.       *)
(* /imagegen answers with the error.                                       *)
TryFails(j) ==
    /\ job[j].state \in {"try", "named", "stored"}
    /\ job' = [job EXCEPT ![j] = IF job[j].kind = "imagegen"
                                 THEN [@ EXCEPT !.state = "failed"]
                                 ELSE AfterTry(@)]
    /\ UNCHANGED <<ringVars, cmd, genSeq, artifacts>>

Bettered(r, s) == IF s > r.best THEN [r EXCEPT !.best = s, !.bestPath = r.path]
                  ELSE r

(* concept: a score at the threshold ends the loop. *)
Scored(j, s) ==
    /\ job[j].state = "stored"
    /\ LET r == [Bettered(job[j], s) EXCEPT !.scores = @ \union {<<s, job[j].path>>}]
       IN  job' = [job EXCEPT ![j] = IF s >= Best
                                     THEN [r EXCEPT !.state = "passed"]
                                     ELSE AfterTry(r)]
    /\ UNCHANGED <<ringVars, cmd, genSeq, artifacts>>

-----------------------------------------------------------------------------
RingNext == \/ \E t \in Loggers : Draws(t) \/ Pushes(t)
            \/ OpensStream \/ DropsStream \/ Polls \/ Sends

ShellNext == \/ \E want \in 0..MaxOut, kept \in BOOLEAN : Command(want, kept)
             \/ Writes \/ Exits \/ Kills \/ Replies

JobNext == \E j \in Jobs :
             \/ \E kind \in {"imagegen", "concept"} : Asked(j, kind)
             \/ Named(j) \/ Stored(j) \/ TryFails(j)
             \/ \E s \in 0..Best : Scored(j, s)

-----------------------------------------------------------------------------
Highest == IF ring = <<>> THEN 0
           ELSE CHOOSE n \in ToSet(ring) : \A m \in ToSet(ring) : m <= n

(* A page that has begun to read catches up with the ring: however the     *)
(* lines of several threads are ordered in it and however often the stream *)
(* drops, the newest line is shown in the end (sse).                       *)
TailCatchesUp ==
    \A n \in Lines :
      Highest = n /\ follower.last # 0 /\ follower.last < n
        ~> n \in seen \/ Highest > n

(* An answer of /shell that reports success has all the command wrote, up  *)
(* to the cap.                                                             *)
ShellAnswerIsWhole ==
    cmd.state = "answered" /\ cmd.ok =>
      cmd.out = IF cmd.want > OutCap THEN OutCap ELSE cmd.want

(* The picture a job is about to score or report is the one it made        *)
(* (generate_image, concept).                                              *)
ArtifactIsOwn ==
    \A j \in Jobs :
      job[j].state \in {"stored", "done"} => artifacts[job[j].path] = <<j, job[j].try>>

=============================================================================
