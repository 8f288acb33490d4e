--------------------------- MODULE SdriverProofs ----------------------------
(***************************************************************************)
(* Proofs about the driver, for any number of traces, iterations and       *)
(* outputs and under every fault: a score that no unnoticed failure has    *)
(* spoilt is what the shells earned, the temporary files are removed on    *)
(* the ways out that remove them, and a folder left behind stops it.       *)
(***************************************************************************)
EXTENDS Sdriver, FiniteSetTheorems, TLAPS

Running == pc \in {"run_test", "run_reference", "filter_test",
                   "filter_reference", "diff"}

DriverTypeOK ==
  /\ pc \in {"options", "run_test", "run_reference", "filter_test",
             "filter_reference", "diff", "score", "ended"}
  /\ options \in Seq(OptionRecords)
  /\ num_iters \in Nat \ {0}
  /\ singletrace \in BOOLEAN /\ num_iters_specified \in BOOLEAN
  /\ tracenum \in 0 .. NumTracefiles
  /\ i \in Nat /\ j \in Nat
  /\ correct \in [Tracefiles -> BOOLEAN]
  /\ num_correct \in Nat
  /\ agreed \in [Tracefiles -> Nat]
  /\ tainted \in BOOLEAN

FileTexts == [text : Texts \cup {"", "absent"}, layout : Layouts \cup {""}]

FileTypeOK ==
  /\ file \in [TmpFiles -> FileTexts]
  /\ printed \in [test : FileTexts, ref : FileTexts]

(* Where the loops are. *)
LoopsOK ==
  /\ singletrace = TRUE => tracenum \in Tracefiles
  /\ pc = "options" => /\ i = 1 /\ j = 1 /\ num_correct = 0
                        /\ agreed = [t \in Tracefiles |-> 0]
  /\ Running => i \in Tracefiles /\ j \in 1 .. num_iters
  /\ Running /\ singletrace = TRUE => i = tracenum
  /\ pc = "score" /\ singletrace = FALSE => i = NumTracefiles + 1

(* What the files hold at each point of an iteration. *)
FilesOK ==
  tainted = FALSE =>
    /\ pc \in {"run_reference", "filter_test", "filter_reference", "diff"} =>
         file["test_raw"] = printed["test"] /\ printed["test"] \in Outputs
    /\ pc \in {"filter_test", "filter_reference", "diff"} =>
         file["ref_raw"] = printed["ref"] /\ printed["ref"] \in Outputs
    /\ pc \in {"filter_reference", "diff"} =>
         file["test_filtered"] = Filtered(printed["test"])
    /\ pc = "diff" => file["ref_filtered"] = Filtered(printed["ref"])

(* The traces before the n-th that passed. *)
Passed(n) == {t \in 1 .. n - 1 : correct[t] = TRUE}

(* The score so far: the traces before i are done, of trace i the iterations
   before j, all of them in agreement. *)
ScoreOK ==
  (Running \/ pc = "score") /\ tainted = FALSE =>
    /\ singletrace = TRUE => num_correct = agreed[tracenum]
    /\ singletrace = FALSE =>
         /\ num_correct = num_iters * Cardinality(Passed(i))
         /\ \A t \in Tracefiles :
              /\ t < i => (correct[t] = TRUE <=> agreed[t] = num_iters)
              /\ t = i => agreed[t] = j - 1
              /\ t > i => agreed[t] = 0

IInv == DriverTypeOK /\ FileTypeOK /\ LoopsOK /\ FilesOK /\ ScoreOK

LEMMA InitIInv == Init => IInv
<1> SUFFICES ASSUME Init PROVE IInv
  OBVIOUS
<1> USE Counts DEF Init
<1>1. DriverTypeOK
  <2>1. options \in Seq(OptionRecords)
    BY OptionsGiven
  <2>2. correct \in [Tracefiles -> BOOLEAN] /\ agreed \in [Tracefiles -> Nat]
    OBVIOUS
  <2>3. tracenum \in 0 .. NumTracefiles
    OBVIOUS
  <2> QED
    BY <2>1, <2>2, <2>3 DEF DriverTypeOK
<1>2. LoopsOK /\ FileTypeOK
  BY DEF FileTypeOK, FileTexts, Absent, Nothing, LoopsOK, Running
<1>3. FilesOK
  BY DEF FilesOK
<1>4. ScoreOK
  BY DEF ScoreOK, Running
<1> QED
  BY <1>1, <1>2, <1>3, <1>4 DEF IInv

(* What the two pieces that several actions share do to the types. *)
LEMMA CountType ==
  ASSUME agreed \in [Tracefiles -> Nat], i \in Tracefiles, Count
  PROVE  agreed' \in [Tracefiles -> Nat]
  BY DEF Count

LEMMA NextRunType ==
  ASSUME NEW result \in BOOLEAN, DriverTypeOK, NextRun(result)
  PROVE  /\ i' \in Nat /\ j' \in Nat /\ num_correct' \in Nat
         /\ correct' \in [Tracefiles -> BOOLEAN]
         /\ pc' \in {"run_test", "score"}
<1> USE DEF DriverTypeOK
<1>1. CASE singletrace
  BY <1>1 DEF NextRun
<1>2. CASE ~singletrace
  <2>1. correct' \in [Tracefiles -> BOOLEAN]
    <3>1. correct' = [correct EXCEPT ![i] = result]
      BY <1>2 DEF NextRun
    <3> QED
      BY <3>1, Zenon
  <2>2. CASE result /\ j < num_iters
    <3>1. /\ j' = j + 1 /\ i' = i /\ num_correct' = num_correct
          /\ pc' = "run_test"
      BY <1>2, <2>2, Zenon DEF NextRun
    <3> QED
      BY <2>1, <3>1
  <2>3. CASE ~(result /\ j < num_iters)
    <3>1. num_correct' = num_correct + num_iters \/ num_correct' = num_correct
      BY <1>2, <2>3 DEF NextRun
    <3>2. /\ i' = i + 1 /\ j' = 1
          /\ pc' = "run_test" \/ pc' = "score"
      BY <1>2, <2>3, Zenon DEF NextRun
    <3> QED
      BY <2>1, <3>1, <3>2
  <2> QED
    BY <2>2, <2>3
<1> QED
  BY <1>1, <1>2

LEMMA OptionType ==
  ASSUME DriverTypeOK, NEW letter, Option(letter)
  PROVE  /\ Head(options) \in OptionRecords
         /\ Tail(options) \in Seq(OptionRecords)
  BY DEF DriverTypeOK, Option

LEMMA ValueType ==
  ASSUME DriverTypeOK, Option("i") \/ Option("t")
  PROVE  Head(options).value \in Nat
<1>1. Head(options) \in OptionRecords
  BY OptionType
<1>2. Head(options).letter \in {"i", "t"}
  BY DEF Option
<1> QED
  BY <1>1, <1>2 DEF OptionRecords

LEMMA BadTrace ==
  ASSUME OptionT, Head(options).value \notin Tracefiles
  PROVE  tracenum' = tracenum /\ singletrace' = singletrace
  BY DEF OptionT

LEMMA GoodTrace ==
  ASSUME OptionT, Head(options).value \in Tracefiles
  PROVE  tracenum' \in 0 .. NumTracefiles /\ singletrace' \in BOOLEAN
<1>1. tracenum' = Head(options).value
  BY DEF OptionT
<1>2. singletrace' = TRUE
  BY Zenon DEF OptionT
<1> QED
  BY <1>1, <1>2, Counts DEF Tracefiles

(* The types, action by action. *)
LEMMA TypeStep == DriverTypeOK /\ LoopsOK /\ [Next]_vars => DriverTypeOK'
<1> SUFFICES ASSUME DriverTypeOK, LoopsOK, [Next]_vars PROVE DriverTypeOK'
  OBVIOUS
<1> USE DEF DriverTypeOK
<1>1. CASE OptionA
  BY <1>1, Counts DEF OptionA, Option, scoreVars, historyVars
<1>2. CASE OptionI
  <2>1. Head(options).value \in Nat /\ Tail(options) \in Seq(OptionRecords)
    BY <1>2, OptionType, ValueType DEF OptionI
  <2>2. num_iters' \in Nat \ {0} /\ num_iters_specified' \in BOOLEAN
    <3>1. CASE Head(options).value < 1
      BY <1>2, <3>1 DEF OptionI
    <3>2. CASE ~(Head(options).value < 1)
      BY <1>2, <2>1, <3>2, Counts DEF OptionI
    <3> QED
      BY <3>1, <3>2
  <2>3. options' \in Seq(OptionRecords) /\ pc' \in {"options", "ended"}
    BY <1>2, <2>1 DEF OptionI, Option, End
  <2> QED
    BY <1>2, <2>2, <2>3 DEF OptionI, scoreVars, historyVars
<1>3. CASE OptionT
  <2>1. Tail(options) \in Seq(OptionRecords)
    BY <1>3, OptionType DEF OptionT
  <2>2. /\ tracenum' \in 0 .. NumTracefiles
        /\ singletrace' \in BOOLEAN
    <3>1. CASE Head(options).value \notin Tracefiles
      BY <1>3, <3>1, BadTrace
    <3>2. CASE Head(options).value \in Tracefiles
      BY <1>3, <3>2, GoodTrace
    <3> QED
      BY <3>1, <3>2
  <2>3. options' \in Seq(OptionRecords) /\ pc' \in {"options", "ended"}
    BY <1>3, <2>1 DEF OptionT, Option, End
  <2> QED
    BY <1>3, <2>2, <2>3 DEF OptionT, scoreVars, historyVars
<1>4. CASE OptionV
  BY <1>4 DEF OptionV, Option, scoreVars, historyVars
<1>5. CASE OptionH
  BY <1>5 DEF OptionH, Option, End, optionVars, scoreVars, historyVars
<1>6. CASE StartRuns
  <2>1. num_iters' \in Nat \ {0}
    BY <1>6 DEF StartRuns
  <2>2. i' \in Nat /\ pc' \in {"run_test", "ended"}
    BY <1>6 DEF StartRuns, End
  <2> QED
    BY <1>6, <2>1, <2>2 DEF StartRuns, historyVars
<1>7. CASE NoTracefile
  BY <1>7 DEF NoTracefile, End, optionVars, scoreVars, historyVars
<1>8. CASE RunTest
  BY <1>8 DEF RunTest, Runs, optionVars, scoreVars
<1>9. CASE RunReference
  BY <1>9 DEF RunReference, Runs, optionVars, scoreVars
<1>10. CASE ReferenceFails
  BY <1>10 DEF ReferenceFails, GiveUp, End, optionVars, scoreVars, historyVars
<1>11. CASE FilterTest \/ FilterReference
  <2>1. pc' \in {"filter_reference", "diff", "ended"} /\ tainted' \in BOOLEAN
    BY <1>11 DEF FilterTest, FilterReference, Filter, GiveUp, End
  <2> QED
    BY <1>11, <2>1 DEF FilterTest, FilterReference, optionVars, scoreVars
<1>12. CASE DiffSame
  <2>1. agreed' \in [Tracefiles -> Nat]
    BY <1>12, CountType DEF DiffSame, LoopsOK, Running
  <2>2. /\ correct' \in [Tracefiles -> BOOLEAN]
        /\ i' \in Nat /\ j' \in Nat /\ num_correct' \in Nat
        /\ pc' \in {"run_test", "score", "ended"}
    BY <1>12, NextRunType DEF DiffSame, End, scoreVars
  <2> QED
    BY <1>12, <2>1, <2>2 DEF DiffSame, optionVars
<1>13. CASE DiffDiffers
  <2>1. agreed' \in [Tracefiles -> Nat]
    BY <1>13, CountType DEF DiffDiffers, LoopsOK, Running
  <2>2. /\ correct' \in [Tracefiles -> BOOLEAN]
        /\ i' \in Nat /\ j' \in Nat /\ num_correct' \in Nat
        /\ pc' \in {"run_test", "score", "ended"}
    BY <1>13, NextRunType DEF DiffDiffers, GiveUp, End, scoreVars
  <2> QED
    BY <1>13, <2>1, <2>2 DEF DiffDiffers, optionVars
<1>14. CASE DiffFails
  BY <1>14 DEF DiffFails, GiveUp, End, optionVars, scoreVars, historyVars
<1>15. CASE Report
  BY <1>15 DEF Report, End, optionVars, scoreVars, historyVars
<1>16. CASE Interrupted
  BY <1>16 DEF Interrupted, End, optionVars, scoreVars, historyVars
<1>17. CASE UNCHANGED vars
  BY <1>17 DEF vars, optionVars, scoreVars, historyVars
<1> QED
  BY <1>1, <1>2, <1>3, <1>4, <1>5, <1>6, <1>7, <1>8, <1>9, <1>10, <1>11, <1>12,
     <1>13, <1>14, <1>15, <1>16, <1>17 DEF Next, RunTrace, Ended

LEMMA FileTypeStep == FileTypeOK /\ [Next]_vars => FileTypeOK'
<1> SUFFICES ASSUME FileTypeOK, [Next]_vars PROVE FileTypeOK'
  OBVIOUS
<1> DEFINE Clean == [f \in TmpFiles |-> Absent]
<1> USE DEF FileTypeOK
<1>a. /\ Absent \in FileTexts /\ Nothing \in FileTexts
      /\ \A o \in Outputs : o \in FileTexts
  BY DEF Absent, Nothing, FileTexts, Outputs
<1>b. /\ Clean \in [TmpFiles -> FileTexts]
      /\ \A f \in TmpFiles : \A o \in FileTexts :
           [file EXCEPT ![f] = o] \in [TmpFiles -> FileTexts]
      /\ \A shell \in {"test", "ref"} : \A o \in FileTexts :
           [printed EXCEPT ![shell] = o] \in [test : FileTexts, ref : FileTexts]
  BY <1>a
<1>c. raw_outfile["test"] \in TmpFiles /\ raw_outfile["ref"] \in TmpFiles
  BY DEF raw_outfile, TmpFiles
<1>1. CASE UNCHANGED <<file, printed>>
  BY <1>1
<1>2. CASE RunTest
  <2>1. CASE \E text \in Outputs : Runs("test", text)
    BY <1>a, <1>b, <1>c, <2>1 DEF Runs
  <2>2. CASE printed' = [printed EXCEPT !["test"] = Nothing] /\ file' = file
    BY <1>a, <1>b, <2>2
  <2> QED
    BY <1>2, <2>1, <2>2 DEF RunTest
<1>3. CASE RunReference
  BY <1>a, <1>b, <1>c, <1>3 DEF RunReference, Runs
<1>4. CASE GiveUp /\ printed' = printed
  BY <1>b, <1>4 DEF GiveUp
<1>5. ASSUME NEW shell \in {"test", "ref"}, NEW next, Filter(shell, next),
             printed' = printed
      PROVE  FileTypeOK'
  <2>1. filtered_outfile[shell] \in TmpFiles /\ raw_outfile[shell] \in TmpFiles
    BY DEF filtered_outfile, raw_outfile, TmpFiles
  <2>2. Filtered(file[raw_outfile[shell]]) \in FileTexts
    BY <1>a, <2>1 DEF Filtered, FileTexts
  <2>3. CASE file' = [file EXCEPT ![filtered_outfile[shell]] =
                                    Filtered(file[raw_outfile[shell]])]
    BY <1>b, <1>5, <2>1, <2>2, <2>3
  <2>4. CASE file' = [file EXCEPT ![filtered_outfile[shell]] = Nothing]
    BY <1>a, <1>b, <1>5, <2>1, <2>4
  <2> QED
    BY <1>4, <1>5, <2>3, <2>4 DEF Filter
<1>6. CASE DiffSame
  <2>1. file' = [file EXCEPT !["diff_filtered"] = Nothing] /\ printed' = printed
    BY <1>6 DEF DiffSame
  <2> QED
    BY <1>a, <1>b, <2>1 DEF TmpFiles
<1>7. CASE DiffDiffers
  <2>1. CASE file' = [file EXCEPT !["diff_filtered"] = file["test_filtered"],
                                  !["diff_raw"] = file["test_raw"]]
    BY <1>7, <2>1 DEF DiffDiffers, TmpFiles
  <2> QED
    BY <1>4, <1>7, <2>1 DEF DiffDiffers
<1>8. CASE Report
  BY <1>b, <1>8 DEF Report, historyVars
<1>9. CASE ReferenceFails \/ DiffFails
  BY <1>1, <1>4, <1>9 DEF ReferenceFails, DiffFails, historyVars
<1>10. CASE FilterTest \/ FilterReference
  BY <1>5, <1>10 DEF FilterTest, FilterReference
<1>11. CASE OptionA \/ OptionI \/ OptionT \/ OptionV \/ OptionH \/ StartRuns
  BY <1>1, <1>11 DEF OptionA, OptionI, OptionT, OptionV, OptionH, StartRuns,
    historyVars
<1>12. CASE NoTracefile \/ Interrupted \/ UNCHANGED vars
  BY <1>1, <1>12 DEF NoTracefile, Interrupted, vars, historyVars
<1> QED
  BY <1>2, <1>3, <1>6, <1>7, <1>8, <1>9, <1>10, <1>11, <1>12 DEF Next, RunTrace, Ended

(* The four cases of NextRun. *)
LEMMA NextRunSingleTrue ==
  ASSUME singletrace = TRUE, NextRun(TRUE)
  PROVE  /\ num_correct' = num_correct + 1 /\ j' = j + 1
         /\ i' = i /\ correct' = correct
         /\ \/ j < num_iters /\ pc' = "run_test"
            \/ ~(j < num_iters) /\ pc' = "score"
  BY Zenon DEF NextRun

LEMMA NextRunSingleFalse ==
  ASSUME singletrace = TRUE, NextRun(FALSE)
  PROVE  /\ num_correct' = num_correct /\ j' = j + 1
         /\ i' = i /\ correct' = correct
         /\ \/ j < num_iters /\ pc' = "run_test"
            \/ ~(j < num_iters) /\ pc' = "score"
  BY Zenon DEF NextRun

LEMMA NextRunTrue ==
  ASSUME singletrace = FALSE, NextRun(TRUE)
  PROVE  /\ correct' = [correct EXCEPT ![i] = TRUE]
         /\ \/ /\ j < num_iters
               /\ j' = j + 1 /\ i' = i /\ num_correct' = num_correct
               /\ pc' = "run_test"
            \/ /\ ~(j < num_iters)
               /\ j' = 1 /\ i' = i + 1 /\ num_correct' = num_correct + num_iters
               /\ \/ i < NumTracefiles /\ pc' = "run_test"
                  \/ ~(i < NumTracefiles) /\ pc' = "score"
  BY Zenon DEF NextRun

LEMMA NextRunFalse ==
  ASSUME singletrace = FALSE, NextRun(FALSE)
  PROVE  /\ correct' = [correct EXCEPT ![i] = FALSE]
         /\ j' = 1 /\ i' = i + 1 /\ num_correct' = num_correct
         /\ \/ i < NumTracefiles /\ pc' = "run_test"
            \/ ~(i < NumTracefiles) /\ pc' = "score"
  BY Zenon DEF NextRun

(* The diff either ends sdriver or goes on to the next run. *)
LEMMA DiffCases ==
  ASSUME DiffSame \/ DiffDiffers
  PROVE  /\ pc = "diff" /\ Count /\ UNCHANGED <<optionVars, folder, printed, tainted>>
         /\ \/ pc' = "ended" /\ UNCHANGED scoreVars
            \/ Same /\ NextRun(TRUE)
            \/ ~Same /\ NextRun(FALSE)
  BY DEF DiffSame, DiffDiffers, GiveUp, End

LEMMA NextRunLoops ==
  ASSUME DriverTypeOK, LoopsOK, Running, NextRun(TRUE) \/ NextRun(FALSE),
         UNCHANGED optionVars
  PROVE  LoopsOK'
<1> USE DEF DriverTypeOK, LoopsOK, Running
<1>0. /\ i \in Tracefiles /\ j \in 1 .. num_iters /\ j \in Nat
      /\ num_iters' = num_iters /\ num_iters \in Nat \ {0}
      /\ tracenum' = tracenum /\ singletrace' = singletrace
  BY DEF optionVars
<1>1. CASE singletrace = TRUE
  <2>1. /\ i' = i /\ j' = j + 1 /\ i = tracenum /\ tracenum \in Tracefiles
        /\ \/ j < num_iters /\ pc' = "run_test"
           \/ ~(j < num_iters) /\ pc' = "score"
    BY <1>1, NextRunSingleTrue, NextRunSingleFalse
  <2> QED
    BY <1>0, <1>1, <2>1
<1>2. CASE singletrace = FALSE
  <2>1. \/ j < num_iters /\ j' = j + 1 /\ i' = i /\ pc' = "run_test"
        \/ j' = 1 /\ i' = i + 1 /\ i < NumTracefiles /\ pc' = "run_test"
        \/ j' = 1 /\ i' = i + 1 /\ ~(i < NumTracefiles) /\ pc' = "score"
    BY <1>2, NextRunTrue, NextRunFalse
  <2> QED
    BY <1>0, <1>2, <2>1, Counts DEF Tracefiles
<1> QED
  BY <1>1, <1>2

LEMMA LoopsStep == DriverTypeOK /\ LoopsOK /\ [Next]_vars => LoopsOK'
<1> SUFFICES ASSUME DriverTypeOK, LoopsOK, [Next]_vars PROVE LoopsOK'
  OBVIOUS
<1>1. ASSUME pc = "options", UNCHANGED <<scoreVars, agreed>>,
             pc' \in {"options", "ended"},
             singletrace' = TRUE => tracenum' \in Tracefiles
      PROVE  LoopsOK'
  BY <1>1 DEF LoopsOK, Running, scoreVars
<1>2. ASSUME UNCHANGED <<i, j, num_iters, tracenum, singletrace>>,
             \/ pc' = pc /\ agreed' = agreed /\ num_correct' = num_correct
             \/ Running /\ Running'
             \/ pc' = "ended"
      PROVE  LoopsOK'
  BY <1>2 DEF LoopsOK, Running
<1>3. CASE OptionA \/ OptionI \/ OptionV \/ OptionH
  BY <1>1, <1>3 DEF LoopsOK, OptionA, OptionI, OptionV, OptionH, Option, End,
    optionVars, historyVars
<1>4. CASE OptionT
  <2>1. singletrace' = TRUE => tracenum' \in Tracefiles
    <3>1. CASE Head(options).value \notin Tracefiles
      BY <1>4, <3>1, BadTrace DEF LoopsOK
    <3>2. CASE Head(options).value \in Tracefiles
      BY <1>4, <3>2 DEF OptionT
    <3> QED
      BY <3>1, <3>2
  <2> QED
    BY <1>1, <1>4, <2>1 DEF OptionT, Option, End, historyVars
<1>5. CASE StartRuns
  <2>1. CASE pc' = "ended"
    BY <1>5, <2>1 DEF StartRuns, LoopsOK, Running
  <2>2. CASE pc' = "run_test"
    <3>1. /\ j' = 1 /\ num_iters' \in Nat \ {0}
          /\ singletrace' = singletrace /\ tracenum' = tracenum
      BY <1>5, TypeStep DEF StartRuns, LoopsOK, DriverTypeOK
    <3>2. singletrace = TRUE => i' = tracenum
      BY <1>5, <2>2, Zenon DEF StartRuns, End
    <3>3. singletrace = FALSE => i' = 1
      BY <1>5, <2>2, Zenon DEF StartRuns, End
    <3>4. i' \in Tracefiles
      BY <3>2, <3>3, Counts DEF LoopsOK, DriverTypeOK, Tracefiles
    <3> QED
      BY <2>2, <3>1, <3>2, <3>4 DEF LoopsOK, Running
  <2> QED
    BY <1>5, <2>1, <2>2 DEF StartRuns, End
<1>6. CASE NoTracefile \/ ReferenceFails \/ DiffFails \/ Report \/ Interrupted
  BY <1>2, <1>6 DEF NoTracefile, ReferenceFails, DiffFails, Report, Interrupted,
    GiveUp, End, optionVars, scoreVars
<1>7. CASE RunTest \/ RunReference
  BY <1>2, <1>7 DEF RunTest, RunReference, Running, optionVars, scoreVars
<1>8. CASE FilterTest \/ FilterReference
  BY <1>2, <1>8 DEF FilterTest, FilterReference, Filter, GiveUp, End, Running,
    optionVars, scoreVars
<1>9. CASE DiffSame \/ DiffDiffers
  <2>1. CASE pc' = "ended" /\ UNCHANGED scoreVars
    BY <1>2, <1>9, <2>1, DiffCases DEF optionVars, scoreVars
  <2>2. CASE NextRun(TRUE) \/ NextRun(FALSE)
    BY <1>9, <2>2, DiffCases, NextRunLoops DEF Running
  <2> QED
    BY <1>9, <2>1, <2>2, DiffCases
<1>10. CASE UNCHANGED vars
  BY <1>10 DEF vars, optionVars, scoreVars, historyVars, LoopsOK, Running
<1> QED
  BY <1>3, <1>4, <1>5, <1>6, <1>7, <1>8, <1>9, <1>10 DEF Next, RunTrace, Ended

LEMMA FilesStep == FileTypeOK /\ FilesOK /\ [Next]_vars => FilesOK'
<1> SUFFICES ASSUME FileTypeOK, FilesOK, [Next]_vars, tainted' = FALSE
             PROVE  FilesOK'
  BY DEF FilesOK
<1> USE DEF FilesOK
<1>1. ASSUME pc' \in {"options", "run_test", "score", "ended"}
      PROVE  FilesOK'
  BY <1>1
<1>2. CASE OptionA \/ OptionI \/ OptionT \/ OptionV \/ OptionH \/ StartRuns
  <2>1. pc' \in {"options", "run_test", "ended"}
    BY <1>2 DEF OptionA, OptionI, OptionT, OptionV, OptionH, StartRuns, Option, End
  <2> QED
    BY <1>1, <2>1
<1>3. CASE NoTracefile \/ ReferenceFails \/ DiffFails \/ Report \/ Interrupted
  BY <1>1, <1>3 DEF NoTracefile, ReferenceFails, DiffFails, Report, Interrupted,
    GiveUp, End
<1>4. CASE RunTest
  <2>1. PICK text \in Outputs : Runs("test", text)
    BY <1>4 DEF RunTest
  <2>2. file'["test_raw"] = text /\ printed'["test"] = text
    BY <2>1 DEF Runs, raw_outfile, FileTypeOK, TmpFiles
  <2> QED
    BY <1>4, <2>2 DEF RunTest
<1>5. CASE RunReference
  <2>1. PICK text \in Outputs : Runs("ref", text)
    BY <1>5 DEF RunReference
  <2>2. /\ file'["ref_raw"] = text /\ printed'["ref"] = text
        /\ file'["test_raw"] = file["test_raw"]
        /\ printed'["test"] = printed["test"]
    BY <2>1 DEF Runs, raw_outfile, FileTypeOK, TmpFiles
  <2>3. pc = "run_reference" /\ pc' = "filter_test" /\ tainted = FALSE
    BY <1>5 DEF RunReference
  <2> QED
    BY <2>2, <2>3
<1>6. CASE FilterTest
  <2>1. CASE pc' = "ended"
    BY <1>1, <2>1
  <2>2. CASE pc' = "filter_reference"
    <3>1. file' = [file EXCEPT !["test_filtered"] = Filtered(file["test_raw"])]
            /\ tainted = FALSE
      BY <1>6, <2>2 DEF FilterTest, Filter, GiveUp, End, filtered_outfile, raw_outfile
    <3>2. /\ file'["test_filtered"] = Filtered(file["test_raw"])
          /\ file'["test_raw"] = file["test_raw"]
          /\ file'["ref_raw"] = file["ref_raw"]
      BY <3>1 DEF FileTypeOK, TmpFiles
    <3>3. printed' = printed /\ pc = "filter_test"
      BY <1>6 DEF FilterTest
    <3> QED
      BY <2>2, <3>1, <3>2, <3>3
  <2> QED
    BY <1>6, <2>1, <2>2 DEF FilterTest, Filter, GiveUp, End
<1>7. CASE FilterReference
  <2>1. CASE pc' = "ended"
    BY <1>1, <2>1
  <2>2. CASE pc' = "diff"
    <3>1. file' = [file EXCEPT !["ref_filtered"] = Filtered(file["ref_raw"])]
            /\ tainted = FALSE
      BY <1>7, <2>2 DEF FilterReference, Filter, GiveUp, End, filtered_outfile,
        raw_outfile
    <3>2. /\ file'["ref_filtered"] = Filtered(file["ref_raw"])
          /\ file'["test_filtered"] = file["test_filtered"]
          /\ file'["test_raw"] = file["test_raw"]
          /\ file'["ref_raw"] = file["ref_raw"]
      BY <3>1 DEF FileTypeOK, TmpFiles
    <3>3. printed' = printed /\ pc = "filter_reference"
      BY <1>7 DEF FilterReference
    <3> QED
      BY <2>2, <3>1, <3>2, <3>3
  <2> QED
    BY <1>7, <2>1, <2>2 DEF FilterReference, Filter, GiveUp, End
<1>8. CASE DiffSame \/ DiffDiffers
  <2>1. pc' \in {"run_test", "score", "ended"}
    <3>1. NextRun(TRUE) \/ NextRun(FALSE) => pc' \in {"run_test", "score"}
      BY DEF NextRun
    <3> QED
      BY <1>8, <3>1, DiffCases
  <2> QED
    BY <1>1, <2>1
<1>9. CASE UNCHANGED vars
  BY <1>9 DEF vars, historyVars
<1> QED
  BY <1>2, <1>3, <1>4, <1>5, <1>6, <1>7, <1>8, <1>9 DEF Next, RunTrace, Ended

(* With the files as they should be, the filtered outputs are the same
   exactly if the shells printed the same text. *)
LEMMA SameIsAgreement ==
  ASSUME FilesOK, tainted = FALSE, pc = "diff"
  PROVE  Same <=> printed["test"].text = printed["ref"].text
<1>1. /\ printed["test"] \in Outputs /\ printed["ref"] \in Outputs
      /\ file["test_filtered"] = Filtered(printed["test"])
      /\ file["ref_filtered"] = Filtered(printed["ref"])
  BY DEF FilesOK
<1>2. /\ file["test_filtered"] = [text |-> printed["test"].text, layout |-> ""]
      /\ file["ref_filtered"] = [text |-> printed["ref"].text, layout |-> ""]
  BY <1>1, AbsentIsNoOutput DEF Filtered
<1>3. \A a, b : [text |-> a, layout |-> ""] = [text |-> b, layout |-> ""] <=> a = b
  OBVIOUS
<1> QED
  BY <1>2, <1>3, Zenon DEF Same

LEMMA CardinalityPassed ==
  ASSUME NEW n \in Nat
  PROVE  IsFiniteSet(Passed(n)) /\ Cardinality(Passed(n)) \in Nat
<1>1. IsFiniteSet(1 .. n - 1)
  BY FS_Interval
<1>2. IsFiniteSet(Passed(n))
  BY <1>1, FS_Subset DEF Passed
<1> QED
  BY <1>2, FS_CardinalityType

LEMMA ScoreNext ==
  ASSUME IInv, pc = "diff", tainted = FALSE, Count, UNCHANGED optionVars,
         (Same /\ NextRun(TRUE)) \/ (~Same /\ NextRun(FALSE))
  PROVE  ScoreOK'
<1>0. /\ i \in Tracefiles /\ i \in Nat /\ i >= 1 /\ j \in 1 .. num_iters /\ j \in Nat
      /\ num_iters' = num_iters /\ num_iters \in Nat \ {0}
      /\ tracenum' = tracenum /\ singletrace' = singletrace
      /\ agreed \in [Tracefiles -> Nat] /\ num_correct \in Nat
      /\ correct \in [Tracefiles -> BOOLEAN]
  BY DEF IInv, DriverTypeOK, LoopsOK, Running, optionVars, Tracefiles
<1>1. /\ Same => agreed' = [agreed EXCEPT ![i] = agreed[i] + 1]
      /\ ~Same => agreed' = agreed
  <2>1. Same <=> printed["test"].text = printed["ref"].text
    BY SameIsAgreement DEF IInv
  <2>2. CASE Same
    BY <2>1, <2>2 DEF Count
  <2>3. CASE ~Same
    <3>1. agreed' = [agreed EXCEPT ![i] = agreed[i]]
      BY <2>1, <2>3 DEF Count
    <3> QED
      BY <1>0, <2>3, <3>1
  <2> QED
    BY <2>2, <2>3
<1>2. CASE singletrace = TRUE
  <2>1. i = tracenum /\ num_correct = agreed[tracenum]
    BY <1>2 DEF IInv, LoopsOK, ScoreOK, Running
  <2>2. num_correct' = agreed'[tracenum]
    <3>1. CASE Same
      BY <1>0, <1>1, <1>2, <2>1, <3>1, NextRunSingleTrue
    <3>2. CASE ~Same
      BY <1>1, <1>2, <2>1, <3>2, NextRunSingleFalse
    <3> QED
      BY <3>1, <3>2
  <2> QED
    BY <1>0, <1>2, <2>2 DEF ScoreOK
<1>3. CASE singletrace = FALSE
  <2>1. /\ num_correct = num_iters * Cardinality(Passed(i))
        /\ \A t \in Tracefiles :
             /\ t < i => (correct[t] = TRUE <=> agreed[t] = num_iters)
             /\ t = i => agreed[t] = j - 1
             /\ t > i => agreed[t] = 0
    BY <1>3 DEF IInv, ScoreOK, Running
  <2>2. IsFiniteSet(Passed(i)) /\ Cardinality(Passed(i)) \in Nat /\ i \notin Passed(i)
    <3>1. i \notin Passed(i)
      BY <1>0 DEF Passed
    <3> QED
      BY <1>0, <3>1, CardinalityPassed
  <2>3. CASE Same /\ j < num_iters
    <3>1. /\ correct' = [correct EXCEPT ![i] = TRUE]
          /\ j' = j + 1 /\ i' = i /\ num_correct' = num_correct
      BY <1>3, <2>3, NextRunTrue
    <3>2. Passed(i)' = Passed(i)
      BY <1>0, <3>1 DEF Passed, Tracefiles
    <3>3. \A t \in Tracefiles :
             /\ t < i' => (correct'[t] = TRUE <=> agreed'[t] = num_iters')
             /\ t = i' => agreed'[t] = j' - 1
             /\ t > i' => agreed'[t] = 0
      BY <1>0, <1>1, <2>1, <2>3, <3>1
    <3> QED
      BY <1>0, <1>3, <2>1, <3>1, <3>2, <3>3 DEF ScoreOK
  <2>4. CASE Same /\ ~(j < num_iters)
    <3>1. /\ correct' = [correct EXCEPT ![i] = TRUE]
          /\ j' = 1 /\ i' = i + 1 /\ num_correct' = num_correct + num_iters
      BY <1>3, <2>4, NextRunTrue
    <3>2. Passed(i)' = Passed(i) \cup {i}
      BY <1>0, <3>1 DEF Passed, Tracefiles
    <3>3. Cardinality(Passed(i)') = Cardinality(Passed(i)) + 1
      BY <2>2, <3>2, FS_AddElement
    <3>4. num_correct' = num_iters' * Cardinality(Passed(i)')
      BY <1>0, <2>1, <2>2, <3>1, <3>3
    <3>5. \A t \in Tracefiles :
             /\ t < i' => (correct'[t] = TRUE <=> agreed'[t] = num_iters')
             /\ t = i' => agreed'[t] = j' - 1
             /\ t > i' => agreed'[t] = 0
      BY <1>0, <1>1, <2>1, <2>4, <3>1
    <3> QED
      BY <1>0, <1>3, <3>4, <3>5 DEF ScoreOK
  <2>5. CASE ~Same
    <3>1. /\ correct' = [correct EXCEPT ![i] = FALSE]
          /\ j' = 1 /\ i' = i + 1 /\ num_correct' = num_correct
      BY <1>3, <2>5, NextRunFalse
    <3>2. Passed(i)' = Passed(i)
      BY <1>0, <3>1 DEF Passed, Tracefiles
    <3>3. \A t \in Tracefiles :
             /\ t < i' => (correct'[t] = TRUE <=> agreed'[t] = num_iters')
             /\ t = i' => agreed'[t] = j' - 1
             /\ t > i' => agreed'[t] = 0
      BY <1>0, <1>1, <2>1, <2>5, <3>1
    <3> QED
      BY <1>0, <1>3, <2>1, <3>1, <3>2, <3>3 DEF ScoreOK
  <2> QED
    BY <2>3, <2>4, <2>5
<1> QED
  BY <1>0, <1>2, <1>3 DEF IInv, DriverTypeOK

(* A step that touches neither the counts nor the history of agreements keeps
   the score, for the comparison that it may spoil is never mended. *)
LEMMA ScoreKept ==
  ASSUME ScoreOK,
         UNCHANGED <<scoreVars, agreed, num_iters, tracenum, singletrace>>,
         tainted' = FALSE => tainted = FALSE,
         (Running \/ pc = "score") \/ ~(Running' \/ pc' = "score")
  PROVE  ScoreOK'
<1>1. /\ i' = i /\ j' = j /\ correct' = correct /\ num_correct' = num_correct
      /\ agreed' = agreed /\ num_iters' = num_iters /\ tracenum' = tracenum
      /\ singletrace' = singletrace
  BY DEF scoreVars
<1>2. Passed(i)' = Passed(i)
  BY <1>1 DEF Passed
<1> QED
  BY <1>1, <1>2 DEF ScoreOK

LEMMA ScoreStart == IInv /\ StartRuns => ScoreOK'
<1> SUFFICES ASSUME IInv, StartRuns PROVE ScoreOK'
  OBVIOUS
<1>1. CASE pc' = "ended"
  BY <1>1 DEF ScoreOK, Running
<1>2. CASE pc' = "run_test"
  <2>1. /\ j' = 1 /\ num_correct' = 0 /\ agreed' = [t \in Tracefiles |-> 0]
        /\ tracenum' = tracenum /\ singletrace' = singletrace
        /\ correct' = correct
        /\ i' = IF singletrace THEN tracenum ELSE 1
    BY <1>2 DEF StartRuns, End, IInv, LoopsOK, historyVars
  <2>2. CASE singletrace = TRUE
    <3>1. tracenum \in Tracefiles
      BY <2>2 DEF IInv, LoopsOK
    <3> QED
      BY <2>1, <2>2, <3>1 DEF ScoreOK
  <2>3. CASE singletrace = FALSE
    <3>1. i' = 1
      BY <2>1, <2>3
    <3>2. Passed(i)' = {}
      BY <3>1 DEF Passed
    <3>3. Cardinality(Passed(i)') = 0
      BY <3>2, FS_EmptySet
    <3>4. num_iters' \in Nat
      BY TypeStep DEF IInv, Next, DriverTypeOK
    <3>5. \A t \in Tracefiles : t \in Nat /\ t >= 1
      BY Counts DEF Tracefiles
    <3> QED
      BY <2>1, <2>3, <3>1, <3>3, <3>4, <3>5 DEF ScoreOK
  <2> QED
    BY <2>2, <2>3 DEF IInv, DriverTypeOK
<1> QED
  BY <1>1, <1>2 DEF StartRuns, End

LEMMA ScoreStep == IInv /\ [Next]_vars => ScoreOK'
<1> SUFFICES ASSUME IInv, [Next]_vars PROVE ScoreOK'
  OBVIOUS
<1>0. ScoreOK /\ FileTypeOK
  BY DEF IInv
<1>1. CASE pc' \in {"options", "ended"}
  BY <1>1 DEF ScoreOK, Running
<1>2. CASE OptionA \/ OptionI \/ OptionT \/ OptionV \/ OptionH
  BY <1>1, <1>2 DEF OptionA, OptionI, OptionT, OptionV, OptionH, Option, End
<1>3. CASE StartRuns
  BY <1>3, ScoreStart
<1>4. CASE NoTracefile \/ ReferenceFails \/ DiffFails \/ Report \/ Interrupted
  BY <1>1, <1>4 DEF NoTracefile, ReferenceFails, DiffFails, Report, Interrupted,
    GiveUp, End
<1>5. CASE RunTest
  <2>1. /\ UNCHANGED <<scoreVars, agreed, num_iters, tracenum, singletrace>>
        /\ pc = "run_test" /\ tainted' \in {tainted, TRUE}
    BY <1>5 DEF RunTest, optionVars
  <2> QED
    BY <1>0, <2>1, ScoreKept DEF Running
<1>6. CASE RunReference
  <2>1. /\ UNCHANGED <<scoreVars, agreed, num_iters, tracenum, singletrace>>
        /\ pc = "run_reference" /\ tainted' = tainted
    BY <1>6 DEF RunReference, optionVars
  <2> QED
    BY <1>0, <2>1, ScoreKept DEF Running
<1>7. CASE FilterTest
  <2>1. /\ UNCHANGED <<scoreVars, agreed, num_iters, tracenum, singletrace>>
        /\ pc = "filter_test" /\ tainted' \in {tainted, TRUE}
    BY <1>7 DEF FilterTest, Filter, optionVars
  <2> QED
    BY <1>0, <2>1, ScoreKept DEF Running
<1>8. CASE FilterReference
  <2>1. /\ UNCHANGED <<scoreVars, agreed, num_iters, tracenum, singletrace>>
        /\ pc = "filter_reference" /\ tainted' \in {tainted, TRUE}
    BY <1>8 DEF FilterReference, Filter, optionVars
  <2> QED
    BY <1>0, <2>1, ScoreKept DEF Running
<1>9. CASE DiffSame \/ DiffDiffers
  <2>1. CASE pc' = "ended"
    BY <1>1, <2>1
  <2>2. CASE tainted' = TRUE
    BY <2>2 DEF ScoreOK
  <2>3. CASE /\ tainted' = FALSE
             /\ (Same /\ NextRun(TRUE)) \/ (~Same /\ NextRun(FALSE))
    <3>1. pc = "diff" /\ Count /\ UNCHANGED optionVars /\ tainted = FALSE
      BY <1>9, <2>3, DiffCases
    <3> QED
      BY <2>3, <3>1, ScoreNext
  <2>4. tainted' \in BOOLEAN
    BY TypeStep DEF IInv, DriverTypeOK
  <2> QED
    BY <1>9, <2>1, <2>2, <2>3, <2>4, DiffCases
<1>10. CASE UNCHANGED vars
  <2>1. /\ UNCHANGED <<scoreVars, agreed, num_iters, tracenum, singletrace>>
        /\ pc' = pc /\ tainted' = tainted
    BY <1>10 DEF vars, historyVars, optionVars
  <2> QED
    BY <1>0, <2>1, ScoreKept DEF Running
<1> QED
  BY <1>2, <1>3, <1>4, <1>5, <1>6, <1>7, <1>8, <1>9, <1>10
  DEF Next, RunTrace, Ended

(* The invariant of the driver: the types, the place in the two loops, what
   the files hold and the score so far. *)
THEOREM DriverInvariant == Spec => []IInv
<1>1. IInv /\ [Next]_vars => IInv'
  BY TypeStep, FileTypeStep, LoopsStep, FilesStep, ScoreStep DEF IInv
<1> QED
  BY InitIInv, <1>1, PTL DEF Spec

LEMMA EarnedFromInvariant == IInv => ScoreIsEarned
<1> SUFFICES ASSUME IInv, pc = "score", tainted = FALSE
             PROVE  IF singletrace
                    THEN num_correct = agreed[tracenum]
                    ELSE /\ \A t \in Tracefiles : correct[t] <=> agreed[t] = num_iters
                         /\ num_correct = num_iters *
                              Cardinality({t \in Tracefiles : correct[t]})
  BY DEF ScoreIsEarned, IInv, DriverTypeOK
<1>1. ScoreOK /\ LoopsOK /\ singletrace \in BOOLEAN
      /\ correct \in [Tracefiles -> BOOLEAN]
  BY DEF IInv, DriverTypeOK
<1>2. CASE singletrace = TRUE
  BY <1>1, <1>2 DEF ScoreOK
<1>3. CASE singletrace = FALSE
  <2>1. i = NumTracefiles + 1 /\ NumTracefiles \in Nat
    BY <1>1, <1>3, Counts DEF LoopsOK
  <2>2. 1 .. i - 1 = Tracefiles /\ \A t \in Tracefiles : t < i
    BY <2>1 DEF Tracefiles
  <2>3. \A t \in Tracefiles : correct[t] \in BOOLEAN
    BY <1>1
  <2>4. \A t \in Tracefiles : correct[t] <=> correct[t] = TRUE
    BY <2>3, Zenon
  <2>5. Passed(i) = {t \in Tracefiles : correct[t]}
    BY <2>2, <2>4, Zenon DEF Passed
  <2>6. /\ num_correct = num_iters * Cardinality(Passed(i))
        /\ \A t \in Tracefiles :
             t < i => (correct[t] = TRUE <=> agreed[t] = num_iters)
    BY <1>1, <1>3 DEF ScoreOK
  <2>7. \A t \in Tracefiles : correct[t] <=> agreed[t] = num_iters
    BY <2>2, <2>4, <2>6, Zenon
  <2> QED
    BY <1>3, <2>5, <2>6, <2>7, Zenon
<1> QED
  BY <1>1, <1>2, <1>3

(* Whatever the traces, the iterations asked for, the outputs and the
   failures, a score that no unnoticed failure has spoilt is what the two
   shells earned (sdriver.c:189-252, 263-401). *)
THEOREM DriverScoreIsEarned == Spec => []ScoreIsEarned
  BY DriverInvariant, EarnedFromInvariant, PTL

-----------------------------------------------------------------------------

(* The ways out, and where a folder left behind is found. *)
EndsOK ==
  /\ pc # "ended" => ended = "no"
  /\ pc = "options" => \A f \in TmpFiles : file[f] = Absent
  /\ TemporariesRemoved
  /\ NoScoreWithFolder

LEMMA EndsStep == EndsOK /\ [Next]_vars => EndsOK'
<1> SUFFICES ASSUME EndsOK, [Next]_vars PROVE EndsOK'
  OBVIOUS
<1> USE DEF EndsOK, TemporariesRemoved, NoScoreWithFolder
<1>1. CASE OptionA \/ OptionV
  BY <1>1 DEF OptionA, OptionV, Option
<1>2. CASE OptionI \/ OptionT \/ OptionH
  <2>1. UNCHANGED <<file, folder>> /\ pc = "options"
    BY <1>2 DEF OptionI, OptionT, OptionH, Option
  <2>2. \/ pc' = "options" /\ ended' = ended
        \/ pc' = "ended" /\ ended' = "usage"
    BY <1>2 DEF OptionI, OptionT, OptionH, Option, End
  <2> QED
    BY <2>1, <2>2
<1>3. CASE StartRuns
  BY <1>3 DEF StartRuns, End
<1>4. CASE NoTracefile \/ Interrupted
  BY <1>4 DEF NoTracefile, Interrupted, End
<1>5. CASE RunTest
  BY <1>5 DEF RunTest, Runs
<1>6. CASE RunReference
  BY <1>6 DEF RunReference, Runs
<1>7. CASE ReferenceFails \/ DiffFails
  BY <1>7 DEF ReferenceFails, DiffFails, GiveUp, End
<1>8. CASE FilterTest \/ FilterReference
  <2>1. folder' = folder /\ ended = "no" /\ pc \in {"filter_test", "filter_reference"}
    BY <1>8 DEF FilterTest, FilterReference
  <2>2. \/ pc' \in {"filter_reference", "diff"} /\ ended' = ended
        \/ GiveUp
    BY <1>8 DEF FilterTest, FilterReference, Filter
  <2> QED
    BY <2>1, <2>2 DEF GiveUp, End
<1>9. CASE DiffSame \/ DiffDiffers
  <2>1. folder' = folder /\ ended = "no" /\ pc = "diff"
    BY <1>9 DEF DiffSame, DiffDiffers
  <2>2. \/ pc' \in {"run_test", "score"} /\ ended' = ended
        \/ GiveUp
        \/ pc' = "ended" /\ ended' = "no_output"
    <3>1. NextRun(TRUE) \/ NextRun(FALSE) => pc' \in {"run_test", "score"}
      BY DEF NextRun
    <3> QED
      BY <1>9, <3>1 DEF DiffSame, DiffDiffers, End
  <2> QED
    BY <2>1, <2>2 DEF GiveUp, End
<1>10. CASE Report
  BY <1>10 DEF Report, End
<1>11. CASE UNCHANGED vars
  BY <1>11 DEF vars
<1> QED
  BY <1>1, <1>2, <1>3, <1>4, <1>5, <1>6, <1>7, <1>8, <1>9, <1>10, <1>11
  DEF Next, RunTrace, Ended

LEMMA EndsInvariant == Spec => []EndsOK
<1>1. Init => EndsOK
  BY DEF Init, EndsOK, TemporariesRemoved, NoScoreWithFolder
<1> QED
  BY <1>1, EndsStep, PTL DEF Spec

(* After every end that removes the temporary files, and after those that
   come before there are any, none is left (sdriver.c:394-434). *)
THEOREM DriverRemovesTemporaries == Spec => []TemporariesRemoved
<1>1. EndsOK => TemporariesRemoved
  BY DEF EndsOK
<1> QED
  BY <1>1, EndsInvariant, PTL

(* Nothing is compared and no score is given while the folder of an earlier
   run is there (sdriver.c:294-310). *)
THEOREM DriverNoScoreWithFolder == Spec => []NoScoreWithFolder
<1>1. EndsOK => NoScoreWithFolder
  BY DEF EndsOK
<1> QED
  BY <1>1, EndsInvariant, PTL
=============================================================================
