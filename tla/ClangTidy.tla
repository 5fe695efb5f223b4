----------------------------- MODULE ClangTidy ------------------------------
(***************************************************************************)
(* The pool of run_clang_tidy.py, which `make check-clang-tidy' runs: the  *)
(* main thread puts the files of the compilation database into a bounded   *)
(* queue.Queue, daemon threads take them and run one clang-tidy process    *)
(* each, join() waits for them, and the exit status is made of what they   *)
(* found.  A thread that raises is gone, with the task it has taken.       *)
(***************************************************************************)
EXTENDS Integers, Sequences, FiniteSets

CONSTANTS
  Workers, \* the daemon threads; as many as the queue has places (max_task)
  NumFiles \* entries of the compilation database

ASSUME PoolAssumption == Workers # {} /\ IsFiniteSet(Workers) /\ NumFiles \in Nat

Files == 1..NumFiles

VARIABLES
  main,       \* where the main thread is
  next,       \* the file the put loop is at
  taskQueue,  \* queue.Queue
  unfinished, \* its count of tasks that are not done
  pc,         \* where each thread is in run_tidy
  name,       \* the file each thread works on
  failed,     \* failed_files
  returnCode,
  tmpdir,     \* the directory for the replacement files
  opts,       \* -export-fixes and -fix; the files the patterns name; third-party files
  runs,       \* history: clang-tidy processes that have ended, per file
  bad,        \* history: files clang-tidy failed for
  broken      \* history: steps of main that failed; "status", of the tool that fixes

pool == <<taskQueue, unfinished, pc, name, failed, runs, bad>>
rest == <<next, opts>>
vars == <<main, next, pool, returnCode, tmpdir, opts, broken>>

Holders == {w \in Workers : pc[w] # "get"}
Running == main \notin {"start", "exited", "killed"}

-----------------------------------------------------------------------------
(* The main thread.                                                        *)

\* The arguments and the database, before main looks at them.
Init ==
  /\ main = "start" /\ next = 1 /\ taskQueue = <<>> /\ unfinished = 0
  /\ pc = [w \in Workers |-> "get"] /\ name = [w \in Workers |-> 0]
  /\ failed = {} /\ returnCode = 0 /\ tmpdir = "none"
  /\ opts \in [export : BOOLEAN, fix : BOOLEAN, named : SUBSET Files,
               thirdParty : SUBSET Files]
  /\ runs = [f \in Files |-> 0] /\ bad = {} /\ broken = {}

\* No database, no clang-tidy or no clang-apply-replacements: sys.exit(1).
PrepareFails ==
  /\ main = "start"
  /\ main' = "exited" /\ returnCode' = 1 /\ broken' = {"prepare"}
  /\ UNCHANGED <<pool, rest, tmpdir>>

\* A pattern is no regular expression: re.compile() raises when tmpdir has been made.
BadPattern ==
  /\ main = "start"
  /\ main' = "exited" /\ returnCode' = 1 /\ broken' = {"pattern"}
  /\ tmpdir' = IF opts.fix \/ opts.export THEN "made" ELSE "none"
  /\ UNCHANGED <<pool, rest>>

\* The directory for the fixes is made and the threads are started.
Prepare ==
  /\ main = "start"
  /\ main' = "put"
  /\ tmpdir' = IF opts.fix \/ opts.export THEN "made" ELSE "none"
  /\ UNCHANGED <<pool, rest, returnCode, broken>>

\* put() with room in the queue.  When it is full, put() times out and is repeated; at
\* a file the patterns do not name put_file stays False: both loops change nothing.
Put ==
  /\ main = "put" /\ next <= NumFiles
  /\ next \in opts.named /\ Len(taskQueue) < Cardinality(Workers)
  /\ taskQueue' = Append(taskQueue, next)
  /\ unfinished' = unfinished + 1
  /\ next' = next + 1
  /\ UNCHANGED <<main, pc, name, failed, runs, bad, returnCode, tmpdir, opts, broken>>

\* Mutant: main does not wait for the threads.
JoinAtOnce ==
  /\ main = "put" /\ next > NumFiles
  /\ returnCode' = IF failed # {} THEN 1 ELSE returnCode
  /\ main' = "export"
  /\ UNCHANGED <<pool, rest, tmpdir, broken>>

\* The last file is put and join() returns: no task is unfinished.
Join ==
  /\ main = "put" /\ next > NumFiles /\ unfinished = 0
  /\ returnCode' = IF failed # {} THEN 1 ELSE returnCode
  /\ main' = "export"
  /\ UNCHANGED <<pool, rest, tmpdir, broken>>

\* merge_replacement_files.  Every file that a thread has taken has left a .yaml file in
\* tmpdir, and reading one raises, because the import of yaml is commented out; with no
\* file the export is only opened, which may fail.
ExportFixes ==
  /\ main = "export" /\ main' = "fix"
  /\ \/ (opts.export => next = 1) /\ UNCHANGED <<returnCode, broken>>
     \/ opts.export /\ returnCode' = 1 /\ broken' = broken \cup {"export"}
  /\ UNCHANGED <<pool, rest, tmpdir>>

\* apply_fixes, the status of whose tool is ignored, or its exception; then tmpdir is
\* removed and the script exits.
ApplyFixes ==
  /\ main = "fix" /\ main' = "exited"
  /\ \/ UNCHANGED <<returnCode, broken>>
     \/ opts.fix /\ broken' = broken \cup {"status"} /\ UNCHANGED returnCode
     \/ opts.fix /\ broken' = broken \cup {"fix"} /\ returnCode' = 1
  /\ tmpdir' = "none"
  /\ UNCHANGED <<pool, rest>>

\* Ctrl-C while main puts or joins: tmpdir is removed and everything killed.
Interrupt ==
  /\ main = "put"
  /\ main' = "killed" /\ tmpdir' = "none"
  /\ UNCHANGED <<pool, rest, returnCode, broken>>

-----------------------------------------------------------------------------
(* run_tidy, in each thread.                                               *)

\* queue.get()
Get(w) ==
  /\ pc[w] = "get" /\ taskQueue # <<>>
  /\ name' = [name EXCEPT ![w] = Head(taskQueue)]
  /\ taskQueue' = Tail(taskQueue)
  /\ pc' = [pc EXCEPT ![w] = "check"]
  /\ UNCHANGED <<unfinished, failed, runs, bad>>

\* queue.task_done(), and back to get().
TaskDone(w) ==
  /\ unfinished' = unfinished - 1
  /\ pc' = [pc EXCEPT ![w] = "get"]

\* CheckConfig.should_skip
ShouldSkip(f) == f \in opts.thirdParty

\* Mutant: a skipped file is reported as done twice, here and at the end of the loop.
SkipTwice(w) ==
  /\ pc[w] = "check" /\ ShouldSkip(name[w])
  /\ unfinished' = unfinished - 2
  /\ pc' = [pc EXCEPT ![w] = "get"]
  /\ UNCHANGED <<taskQueue, name, failed, runs, bad>>

\* Mutant: a skipped file is not reported as done.
SkipSilently(w) ==
  /\ pc[w] = "check" /\ ShouldSkip(name[w])
  /\ pc' = [pc EXCEPT ![w] = "get"]
  /\ UNCHANGED <<unfinished, taskQueue, name, failed, runs, bad>>

\* A file that is not checked is done.
Skip(w) ==
  /\ pc[w] = "check" /\ ShouldSkip(name[w])
  /\ TaskDone(w)
  /\ UNCHANGED <<taskQueue, name, failed, runs, bad>>

\* The clang-tidy process of the file ends.
RunTidy(w) ==
  /\ pc[w] = "check" /\ ~ShouldSkip(name[w])
  /\ runs' = [runs EXCEPT ![name[w]] = @ + 1]
  /\ \/ pc' = [pc EXCEPT ![w] = "print"] /\ UNCHANGED bad
     \/ pc' = [pc EXCEPT ![w] = "failed"] /\ bad' = bad \cup {name[w]}
  /\ UNCHANGED <<unfinished, taskQueue, name, failed>>

\* Mutant: the output of a failed process is printed, the failure forgotten.
ForgetFailure(w) ==
  /\ pc[w] = "failed"
  /\ pc' = [pc EXCEPT ![w] = "print"]
  /\ UNCHANGED <<unfinished, taskQueue, name, failed, runs, bad>>

\* failed_files.append(name)
RecordFailure(w) ==
  /\ pc[w] = "failed"
  /\ failed' = failed \cup {name[w]}
  /\ pc' = [pc EXCEPT ![w] = "print"]
  /\ UNCHANGED <<unfinished, taskQueue, name, runs, bad>>

\* The output is printed under the lock; then the task is done.
Report(w) ==
  /\ pc[w] = "print"
  /\ TaskDone(w)
  /\ UNCHANGED <<taskQueue, name, failed, runs, bad>>

\* mkstemp, for any file when there is a tmpdir, Popen or the decoding of the output
\* raises: the thread is gone.
Raise(w) ==
  /\ \/ pc[w] = "check" /\ (tmpdir = "made" \/ ~ShouldSkip(name[w]))
     \/ pc[w] = "print"
  /\ pc' = [pc EXCEPT ![w] = "dead"]
  /\ UNCHANGED <<unfinished, taskQueue, name, failed, runs, bad>>

Thread(w) ==
  /\ Running
  /\ Get(w) \/ Skip(w) \/ RunTidy(w) \/ RecordFailure(w) \/ Report(w)
  /\ UNCHANGED <<main, rest, returnCode, tmpdir, broken>>

ThreadRaises(w) == Running /\ Raise(w) /\ UNCHANGED <<main, rest, returnCode, tmpdir, broken>>

Main == PrepareFails \/ BadPattern \/ Prepare \/ Put \/ Join \/ ExportFixes \/ ApplyFixes

Next == Main \/ Interrupt \/ \E w \in Workers : Thread(w) \/ ThreadRaises(w)

Spec == Init /\ [][Next]_vars

\* Threads are scheduled and every clang-tidy process ends.
FairSpec == Spec /\ WF_vars(Main) /\ \A w \in Workers : WF_vars(Thread(w))

-----------------------------------------------------------------------------
(* Properties.                                                             *)

\* Types.
TypeOK ==
  /\ main \in {"start", "put", "export", "fix", "exited", "killed"}
  /\ next \in 1..(NumFiles + 1)
  /\ taskQueue \in Seq(Files) /\ unfinished \in Nat
  /\ pc \in [Workers -> {"get", "check", "failed", "print", "dead"}]
  /\ name \in [Workers -> {0} \cup Files]
  /\ \A w \in Holders : name[w] \in Files
  /\ failed \in SUBSET Files /\ returnCode \in {0, 1}
  /\ tmpdir \in {"none", "made"}
  /\ opts \in [export : BOOLEAN, fix : BOOLEAN, named : SUBSET Files,
               thirdParty : SUBSET Files]
  /\ runs \in [Files -> Nat] /\ bad \in SUBSET Files
  /\ broken \in SUBSET {"prepare", "pattern", "export", "status", "fix"}

\* The queue's count is that of the files waiting in it and those a thread has taken
\* and not reported: a thread that died keeps its task for ever.
TasksCounted == unfinished = Len(taskQueue) + Cardinality(Holders)

\* join() is a barrier: behind it every file has been through clang-tidy exactly once,
\* third-party files have not, and no thread is at work or has died on the way.
JoinComplete ==
  main \in {"export", "fix"} =>
    /\ Holders = {} /\ taskQueue = <<>>
    /\ \A f \in Files : runs[f] = IF f \in opts.thirdParty THEN 0 ELSE 1

\* The script's exit status tells whether anything failed, on every way to the exit, but
\* for the status of clang-apply-replacements, which nobody looks at; and no directory
\* of temporary files is left behind, but for the one made before a bad pattern.
ExitTells ==
  main = "exited" =>
    /\ returnCode = IF bad = {} /\ broken \subseteq {"status"} THEN 0 ELSE 1
    /\ tmpdir = "none" \/ broken = {"pattern"}

\* The script ends, unless a thread has died or a file of the database is not named by
\* the patterns; in these two cases it waits or spins for ever.
Ends == <>(main \in {"exited", "killed"} \/ opts.named # Files
           \/ \E w \in Workers : pc[w] = "dead")
=============================================================================
