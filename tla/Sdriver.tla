------------------------------ MODULE Sdriver -------------------------------
(***************************************************************************)
(* sdriver.c: the driver that runs every trace several times on the test   *)
(* shell and on the reference shell, compares what they print and gives a  *)
(* score.                                                                  *)
(*                                                                         *)
(* Each command is a call of system(), atomic here: sdriver waits for it   *)
(* with SIGINT and SIGQUIT ignored.  An output is a text and a layout; the *)
(* filter takes the layout (white space, process ids) away.  The files     *)
(* keep what was last written to them, and a command that could not be     *)
(* started leaves the output of an earlier run behind.                     *)
(***************************************************************************)
EXTENDS Naturals, Sequences, FiniteSets

CONSTANTS
  NumTracefiles,  \* length of the list of traces
  ITERS,          \* how often a trace is run unless -i says otherwise
  MaxIters,       \* the most that -i is allowed to ask for
  CommandLines,   \* the options sdriver is started with
  Texts,          \* what a shell may print, white space apart
  Layouts,        \* the white space and process ids it prints
  Faults          \* which of "missing", "signal", "start", "filter", "diff",
                  \* "remove" and "folder" may happen

ASSUME Counts ==
  /\ NumTracefiles \in Nat \ {0}
  /\ ITERS \in Nat \ {0} /\ MaxIters \in Nat \ {0}

OptionRecords == [letter : {"A", "V", "h"}] \cup [letter : {"i", "t"}, value : Nat]

ASSUME OptionsGiven == \A o \in CommandLines : o \in Seq(OptionRecords)

VARIABLES
  pc,                   \* the next thing sdriver does
  options,              \* the options that getopt has not returned yet
  autograded, num_iters, num_iters_specified, tracenum, singletrace, verbose,
  i, j,                 \* the trace and the iteration
  correct,              \* the result of the last run of each trace
  num_correct,
  file,                 \* the six temporary files
  folder,               \* whether runtrace.tmp is there
  ended,                \* how sdriver ended
  agreed,               \* history: how many runs of each trace agreed
  printed,              \* history: what the shells printed in this iteration
  tainted               \* history: a comparison was not of these two outputs

optionVars ==
  <<options, autograded, num_iters, num_iters_specified, tracenum, singletrace,
    verbose>>
scoreVars == <<i, j, correct, num_correct>>
historyVars == <<agreed, printed, tainted>>
vars == <<pc, optionVars, scoreVars, file, folder, ended, historyVars>>

Tracefiles == 1 .. NumTracefiles
Outputs == [text : Texts, layout : Layouts]
Nothing == [text |-> "", layout |-> ""]
Absent == [text |-> "absent", layout |-> ""]

ASSUME AbsentIsNoOutput == Absent \notin Outputs

TmpFiles == {"test_raw", "ref_raw", "diff_raw",
             "test_filtered", "ref_filtered", "diff_filtered"}

raw_outfile == [test |-> "test_raw", ref |-> "ref_raw"]
filtered_outfile == [test |-> "test_filtered", ref |-> "ref_filtered"]

Init ==
  /\ pc = "options"
  /\ options \in CommandLines
  /\ autograded = FALSE
  /\ num_iters = ITERS /\ num_iters_specified = FALSE
  /\ tracenum = 0 /\ singletrace = FALSE
  /\ verbose = 0
  /\ i = 1 /\ j = 1
  /\ correct = [t \in Tracefiles |-> FALSE]
  /\ num_correct = 0
  /\ file = [f \in TmpFiles |-> Absent]
  /\ folder \in {FALSE, "folder" \in Faults}
  /\ ended = "no"
  /\ agreed = [t \in Tracefiles |-> 0]
  /\ printed = [test |-> Nothing, ref |-> Nothing]
  /\ tainted = FALSE

End(how) == pc' = "ended" /\ ended' = how

-----------------------------------------------------------------------------
(* The command line, an option at a time.                                  *)

Option(letter) == pc = "options" /\ options # <<>> /\ Head(options).letter = letter

(* -A puts the number of iterations back, but only the -i before it. *)
OptionA ==
  /\ Option("A")
  /\ autograded' = TRUE
  /\ num_iters' = ITERS
  /\ options' = Tail(options)
  /\ UNCHANGED <<pc, num_iters_specified, tracenum, singletrace, verbose,
                 scoreVars, file, folder, ended, historyVars>>

OptionI ==
  /\ Option("i")
  /\ LET n == Head(options).value
     IN  IF n < 1
         THEN End("usage") /\ UNCHANGED <<options, num_iters, num_iters_specified>>
         ELSE /\ num_iters' = IF n < MaxIters THEN n ELSE MaxIters
              /\ num_iters_specified' = TRUE
              /\ options' = Tail(options)
              /\ UNCHANGED <<pc, ended>>
  /\ UNCHANGED <<autograded, tracenum, singletrace, verbose, scoreVars, file,
                 folder, historyVars>>

OptionT ==
  /\ Option("t")
  /\ LET t == Head(options).value
     IN  IF t \notin Tracefiles
         THEN End("usage") /\ UNCHANGED <<options, tracenum, singletrace, verbose>>
         ELSE /\ tracenum' = t /\ singletrace' = TRUE
              /\ verbose' = verbose + 1
              /\ options' = Tail(options)
              /\ UNCHANGED <<pc, ended>>
  /\ UNCHANGED <<autograded, num_iters, num_iters_specified, scoreVars, file,
                 folder, historyVars>>

OptionV ==
  /\ Option("V")
  /\ verbose' = verbose + 1
  /\ options' = Tail(options)
  /\ UNCHANGED <<pc, autograded, num_iters, num_iters_specified, tracenum,
                 singletrace, scoreVars, file, folder, ended, historyVars>>

(* -h and a letter that is no option. *)
OptionH ==
  /\ Option("h")
  /\ End("usage")
  /\ UNCHANGED <<optionVars, scoreVars, file, folder, historyVars>>

(* The shell to test must be an executable file. *)
StartRuns ==
  /\ pc = "options" /\ options = <<>>
  /\ \/ /\ num_iters' = IF singletrace /\ ~num_iters_specified THEN 1 ELSE num_iters
        /\ i' = IF singletrace THEN tracenum ELSE 1
        /\ pc' = "run_test"
        /\ UNCHANGED ended
     \/ /\ "missing" \in Faults
        /\ End("no_shell")
        /\ UNCHANGED <<num_iters, i>>
  /\ UNCHANGED <<options, autograded, num_iters_specified, tracenum, singletrace,
                 verbose, j, correct, num_correct, file, folder, historyVars>>

-----------------------------------------------------------------------------
(* runtrace: one trace on both shells.                                     *)

(* delete_tmpfiles, then exit(1). *)
GiveUp ==
  \/ /\ file' = [f \in TmpFiles |-> Absent]
     /\ End("gave_up")
  \/ /\ "remove" \in Faults
     /\ UNCHANGED file
     /\ End("rm_failed")

NoTracefile ==
  /\ pc = "run_test"
  /\ "missing" \in Faults
  /\ End("no_trace")
  /\ UNCHANGED <<optionVars, scoreVars, file, folder, historyVars>>

(* The runner prints into the file of its shell.  It prints an error and
   stops at once when runtrace.tmp exists. *)
Runs(shell, text) ==
  /\ file' = [file EXCEPT ![raw_outfile[shell]] = text]
  /\ printed' = [printed EXCEPT ![shell] = text]

(* The test shell: whatever becomes of the run, other than an interrupt, the
   comparison goes on with the output there is.  A runner that is killed
   leaves its folder behind. *)
RunTest ==
  /\ pc = "run_test"
  /\ pc' = "run_reference"
  /\ \/ \E text \in Outputs :
          /\ Runs("test", text)
          /\ folder' \in {folder, folder \/ "folder" \in Faults}
          /\ UNCHANGED tainted
     \/ /\ "start" \in Faults
        /\ printed' = [printed EXCEPT !["test"] = Nothing]
        /\ tainted' = TRUE
        /\ UNCHANGED <<file, folder>>
  /\ UNCHANGED <<optionVars, scoreVars, ended, agreed>>

(* Mutant: the failure of the reference run is reported and passed over. *)
RunReference_anyway ==
  /\ pc = "run_reference"
  /\ \E text \in Outputs : Runs("ref", text)
  /\ pc' = "filter_test"
  /\ UNCHANGED <<optionVars, scoreVars, folder, ended, agreed, tainted>>

(* The reference shell: its run must succeed. *)
RunReference ==
  /\ pc = "run_reference" /\ ~folder
  /\ \E text \in Outputs : Runs("ref", text)
  /\ pc' = "filter_test"
  /\ UNCHANGED <<optionVars, scoreVars, folder, ended, agreed, tainted>>

(* Its runner found the folder of an earlier run, or failed otherwise: what
   it printed is shown, which needs the file. *)
ReferenceFails ==
  /\ pc = "run_reference"
  /\ folder \/ "start" \in Faults
  /\ IF ~folder /\ file["ref_raw"] = Absent
     THEN End("no_output") /\ UNCHANGED file
     ELSE GiveUp
  /\ UNCHANGED <<optionVars, scoreVars, folder, historyVars>>

(* The status of a filter is that of sort: if perl could not run, or had no
   file to read, the filtered output is empty and nothing is noticed. *)
Filtered(raw) ==
  IF raw = Absent THEN Nothing ELSE [text |-> raw.text, layout |-> ""]

Filter(shell, next) ==
  \/ /\ pc' = next
     /\ \/ /\ file' = [file EXCEPT ![filtered_outfile[shell]] =
                                     Filtered(file[raw_outfile[shell]])]
           /\ UNCHANGED tainted
        \/ /\ "filter" \in Faults
           /\ file' = [file EXCEPT ![filtered_outfile[shell]] = Nothing]
           /\ tainted' = TRUE
     /\ UNCHANGED ended
  \/ /\ "start" \in Faults
     /\ GiveUp
     /\ UNCHANGED tainted

FilterTest ==
  /\ pc = "filter_test"
  /\ Filter("test", "filter_reference")
  /\ UNCHANGED <<optionVars, scoreVars, folder, agreed, printed>>

FilterReference ==
  /\ pc = "filter_reference"
  /\ Filter("ref", "diff")
  /\ UNCHANGED <<optionVars, scoreVars, folder, agreed, printed>>

Same == file["test_filtered"] = file["ref_filtered"]

(* The history of the iteration: whether the shells printed the same text. *)
Count ==
  agreed' = [agreed EXCEPT ![i] =
               IF printed["test"].text = printed["ref"].text THEN @ + 1 ELSE @]

(* Mutant: the iterations go on after one that failed. *)
NextRun_on(result) ==
  IF singletrace
  THEN /\ num_correct' = IF result THEN num_correct + 1 ELSE num_correct
       /\ j' = j + 1
       /\ pc' = IF j < num_iters THEN "run_test" ELSE "score"
       /\ UNCHANGED <<i, correct>>
  ELSE /\ correct' = [correct EXCEPT ![i] = result]
       /\ IF j < num_iters
          THEN /\ j' = j + 1
               /\ pc' = "run_test"
               /\ UNCHANGED <<i, num_correct>>
          ELSE /\ num_correct' = IF result THEN num_correct + num_iters
                                           ELSE num_correct
               /\ i' = i + 1 /\ j' = 1
               /\ pc' = IF i < NumTracefiles THEN "run_test" ELSE "score"

(* What follows a run of the trace that is, or is not, correct. *)
NextRun(result) ==
  IF singletrace
  THEN /\ num_correct' = IF result THEN num_correct + 1 ELSE num_correct
       /\ j' = j + 1
       /\ pc' = IF j < num_iters THEN "run_test" ELSE "score"
       /\ UNCHANGED <<i, correct>>
  ELSE /\ correct' = [correct EXCEPT ![i] = result]
       /\ IF result /\ j < num_iters
          THEN /\ j' = j + 1
               /\ pc' = "run_test"
               /\ UNCHANGED <<i, num_correct>>
          ELSE /\ num_correct' = IF result THEN num_correct + num_iters
                                           ELSE num_correct
               /\ i' = i + 1 /\ j' = 1
               /\ pc' = IF i < NumTracefiles THEN "run_test" ELSE "score"

(* The filtered outputs are the same; -V twice shows them. *)
DiffSame ==
  /\ pc = "diff" /\ Same
  /\ file' = [file EXCEPT !["diff_filtered"] = Nothing]
  /\ Count
  /\ IF verbose > 1 /\ file["test_raw"] = Absent
     THEN End("no_output") /\ UNCHANGED scoreVars
     ELSE NextRun(TRUE) /\ UNCHANGED ended
  /\ UNCHANGED <<optionVars, folder, printed, tainted>>

(* They differ, and then so must the unfiltered ones: diff is run on these
   to show where. *)
DiffDiffers ==
  /\ pc = "diff" /\ ~Same
  /\ Count
  /\ IF Absent \in {file["test_raw"], file["ref_raw"]}
        \/ file["test_raw"] = file["ref_raw"]
     THEN GiveUp /\ UNCHANGED scoreVars
     ELSE /\ file' = [file EXCEPT !["diff_filtered"] = file["test_filtered"],
                                  !["diff_raw"] = file["test_raw"]]
          /\ NextRun(FALSE)
          /\ UNCHANGED ended
  /\ UNCHANGED <<optionVars, folder, printed, tainted>>

(* Mutant: nothing is removed when diff itself fails. *)
DiffFails_early ==
  /\ pc = "diff"
  /\ "diff" \in Faults
  /\ End("gave_up")
  /\ UNCHANGED <<optionVars, scoreVars, file, folder, historyVars>>

DiffFails ==
  /\ pc = "diff"
  /\ "diff" \in Faults
  /\ GiveUp
  /\ UNCHANGED <<optionVars, scoreVars, folder, historyVars>>

-----------------------------------------------------------------------------
(* The score is printed and the temporary files are removed. *)
Report ==
  /\ pc = "score"
  /\ \/ /\ file' = [f \in TmpFiles |-> Absent]
        /\ End("exit")
     \/ /\ "remove" \in Faults
        /\ End("rm_failed")
        /\ UNCHANGED file
  /\ UNCHANGED <<optionVars, scoreVars, folder, historyVars>>

(* An interrupt kills sdriver between two commands, and so does one that has
   killed the runner, which sdriver raises again. *)
Interrupted ==
  /\ "signal" \in Faults
  /\ pc # "ended"
  /\ End("killed")
  /\ UNCHANGED <<optionVars, scoreVars, file, folder, historyVars>>

Ended == pc = "ended" /\ UNCHANGED vars

RunTrace ==
  \/ NoTracefile \/ RunTest \/ RunReference \/ ReferenceFails
  \/ FilterTest \/ FilterReference \/ DiffSame \/ DiffDiffers \/ DiffFails

Next ==
  \/ OptionA \/ OptionI \/ OptionT \/ OptionV \/ OptionH \/ StartRuns
  \/ RunTrace
  \/ Report \/ Interrupted \/ Ended

Spec == Init /\ [][Next]_vars

-----------------------------------------------------------------------------

(* The score is what the shells earned: a trace counts, with all its
   iterations at once, exactly if the two shells printed the same text in
   every one of them, and the marks of the autoresult agree with the total;
   a single trace counts its iterations one by one.  Only a filter that fails
   or a run that is not started, which sdriver does not notice, can spoil
   this (sdriver.c:189-252, 263-401). *)
ScoreIsEarned ==
  pc = "score" /\ ~tainted =>
    IF singletrace
    THEN num_correct = agreed[tracenum]
    ELSE /\ \A t \in Tracefiles : correct[t] <=> agreed[t] = num_iters
         /\ num_correct = num_iters * Cardinality({t \in Tracefiles : correct[t]})

(* sdriver leaves temporary files behind only when it is killed, when a trace
   or an output is missing in the middle, or when rm fails, however far it
   came before it gave up (sdriver.c:254-256, 269-272, 282-354, 394-418). *)
TemporariesRemoved ==
  ended \in {"exit", "gave_up", "usage", "no_shell"} =>
    \A f \in TmpFiles : file[f] = Absent

(* A folder that a killed runner has left behind is noticed before anything
   is compared: the reference run fails on it and there is no score, also not
   for the traces that were right (sdriver.c:282-310, runtrace.c:290-301). *)
NoScoreWithFolder ==
  folder => /\ pc \notin {"filter_test", "filter_reference", "diff", "score"}
            /\ ended # "exit"
=============================================================================
