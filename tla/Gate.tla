--------------------------------- MODULE Gate ---------------------------------
(***************************************************************************)
(* oq_zoo: strategies register themselves when their module is imported,   *)
(* the command line has a hook make the specs, and the honesty gate        *)
(* evaluates one after the other: reference backtest, walk-forward,        *)
(* declarations.  The exit status tells whether all passed.                *)
(*                                                                         *)
(* Strategies, backtests and benchmarks are what they answer: a return in  *)
(* basis points a year or NaN, a list of out-of-sample returns, or an      *)
(* exception.  A Sharpe ratio is its sign: the required minimum is 0, the  *)
(* default.                                                                *)
(***************************************************************************)
EXTENDS WalkForward, FiniteSets, Functions, SequencesExt, FiniteSetsExt

CONSTANTS
    Entry,          \* what may be registered, a set of StrategyEntry
    Cagr,           \* yearly returns in basis points there may be
    FoldReturns,    \* lists of returns a fold may have
    Config,         \* the configurations, a set of HonestyGateConfig
    NaN,
    MaxSpecs        \* bound: specs of a run

Declaration == {"benchmark", "universe", "cost preset"}

StrategyEntry == [name : STRING, missing : SUBSET Declaration, educational : BOOLEAN]

HonestyGateConfig ==
    [min_alpha_bps : Int, require_walk_forward : BOOLEAN,
     train_periods : Nat \ {0}, test_periods : Nat \ {0}, step : Nat \ {0}]

ASSUME GateAssumption ==
    /\ NaN \notin Int
    /\ Entry \subseteq StrategyEntry
    /\ Cagr \subseteq Int \union {NaN}
    /\ FoldReturns \subseteq Seq(Int)
    /\ Config \subseteq HonestyGateConfig
    /\ MaxSpecs \in Nat

VARIABLES
    registry,   \* REGISTRY: entries by name
    config,     \* of the gate, once it is called
    panel,      \* how many rows the prices of the specs have
    specs,      \* what the hook returned: the entries of the specs
    stage,      \* what the gate is at, with the spec after the last report
    report,     \* the GateReport in the making
    fold,       \* the folds done
    oos,        \* oos_returns
    reports,
    exit,       \* the exit status "0" or "1", "raised", or "none" yet
    evidence    \* history: for each spec, whether its reference backtest came to
                \* its end, and the folds that were backtested

gateVars == <<registry, config, panel, specs, stage, report, fold, oos, reports, exit, evidence>>

Current == specs[Len(reports) + 1]

NewReport(entry) ==
    [name |-> entry.name, educational |-> entry.educational,
     ran_backtest |-> FALSE, ran_walk_forward |-> FALSE,
     alpha_bps |-> NaN, oos_sharpe |-> NaN, failures |-> {}]

Failed(r, why) == [r EXCEPT !.failures = @ \union why]

Less(x, y) == x # NaN /\ y # NaN /\ x < y

GateInit ==
    /\ registry = <<>>
    /\ config = <<>>
    /\ panel = 0
    /\ specs = <<>>
    /\ stage = "import"
    /\ report = <<>>
    /\ fold = 0
    /\ oos = <<>>
    /\ reports = <<>>
    /\ exit = "none"
    /\ evidence = [k \in 1..MaxSpecs |-> [completed |-> FALSE, folds |-> {}]]

----------------------------------------------------------------------------
(* The imports.                                                             *)

register(entry) ==
    /\ stage = "import"
    /\ entry.name \notin DOMAIN registry
    /\ registry' = [name \in DOMAIN registry \union {entry.name} |->
                       IF name = entry.name THEN entry ELSE registry[name]]
    /\ UNCHANGED <<config, panel, specs, stage, report, fold, oos, reports, exit, evidence>>

(* register raises, and the import with it. *)
registerTwice(entry) ==
    /\ stage = "import"
    /\ entry.name \in DOMAIN registry
    /\ stage' = "done"
    /\ exit' = "raised"
    /\ UNCHANGED <<registry, config, panel, specs, report, fold, oos, reports, evidence>>

(* The stage that comes first for the spec after so many reports. *)
Begun(list, done) ==
    IF done < Len(list)
    THEN stage' = "reference" /\ report' = NewReport(list[done + 1])
    ELSE stage' = "judge" /\ report' = <<>>

(* main, gate: the hook returns specs of registered strategies, any of      *)
(* them, over the prices of the panel.                                      *)
SpecHook ==
    /\ stage = "import"
    /\ \E list \in SeqOf(Range(registry), MaxSpecs) : specs' = list
    /\ Begun(specs', 0)
    /\ UNCHANGED <<registry, config, panel, fold, oos, reports, exit, evidence>>

----------------------------------------------------------------------------
(* _run_reference_backtest                                                  *)

AfterReference(r) ==
    /\ report' = r
    /\ stage' = IF config.require_walk_forward /\ r.ran_backtest THEN "walk" ELSE "declare"
    /\ UNCHANGED <<registry, config, panel, specs, fold, oos, reports, exit>>

(* The strategy, the engine or, after the run, its summary raises; without  *)
(* a cost preset the engine does.                                           *)
ReferenceRaises ==
    /\ stage = "reference"
    /\ \E ran \in BOOLEAN :
          /\ ran => "cost preset" \notin Current.missing
          /\ AfterReference(Failed([report EXCEPT !.ran_backtest = ran], {"backtest"}))
    /\ UNCHANGED evidence

Alpha(net, benchmark) == IF NaN \in {net, benchmark} THEN NaN ELSE net - benchmark

(* Seeded fault: an educational strategy need not run. *)
ReferenceExcused ==
    /\ stage = "reference"
    /\ \E ran \in BOOLEAN :
          AfterReference(Failed([report EXCEPT !.ran_backtest = ran],
                                IF report.educational THEN {} ELSE {"backtest"}))
    /\ UNCHANGED evidence

ReferenceRuns ==
    /\ stage = "reference"
    /\ "cost preset" \notin Current.missing
    /\ \E net \in Cagr, benchmark \in Cagr :
          LET alpha == Alpha(net, benchmark)
              ran   == [report EXCEPT !.ran_backtest = TRUE, !.alpha_bps = alpha]
          IN  AfterReference(
                 IF ~report.educational /\ Less(alpha, config.min_alpha_bps)
                 THEN Failed(ran, {"alpha"}) ELSE ran)
    /\ evidence' = [evidence EXCEPT ![Len(reports) + 1].completed = TRUE]

(* The returns of the benchmark have an index that is no dates, or are no   *)
(* returns at all.  They are looked at when the backtest is done and        *)
(* outside its try, so that the exception ends the gate, and the reports so *)
(* far are lost.                                                            *)
BenchmarkRaises ==
    /\ stage = "reference"
    /\ "cost preset" \notin Current.missing
    /\ reports' = <<>>
    /\ stage' = "done"
    /\ exit' = "raised"
    /\ UNCHANGED <<registry, config, panel, specs, report, fold, oos, evidence>>

----------------------------------------------------------------------------
(* _run_walk_forward                                                        *)

Folds == walk_forward(panel, config.train_periods, config.test_periods, FALSE, config.step)

Rows(f) == Cardinality(TestRows(f))

(* A fold of less than five rows is skipped; so is one without signals, and *)
(* one whose returns are all NaN adds none.                                 *)
FoldSkipped ==
    /\ stage = "walk" /\ fold < Len(Folds)
    /\ fold' = fold + 1
    /\ UNCHANGED <<registry, config, panel, specs, stage, report, oos, reports, exit, evidence>>

FoldRuns ==
    /\ stage = "walk" /\ fold < Len(Folds)
    /\ Rows(Folds[fold + 1]) >= 5
    /\ \E returns \in FoldReturns \ {<<>>} : oos' = oos \o returns
    /\ evidence' = [evidence EXCEPT ![Len(reports) + 1].folds = @ \union {Folds[fold + 1]}]
    /\ fold' = fold + 1
    /\ UNCHANGED <<registry, config, panel, specs, stage, report, reports, exit>>

(* The sign of the Sharpe ratio; 0 without variation. *)
Sharpe(returns) ==
    IF Cardinality(ToSet(returns)) = 1 THEN 0
    ELSE LET sum == FoldLeft(LAMBDA a, b : a + b, 0, returns)
         IN  IF sum < 0 THEN -1 ELSE IF sum > 0 THEN 1 ELSE 0

AfterWalk(r) ==
    /\ report' = r
    /\ stage' = "declare"
    /\ fold' = 0
    /\ oos' = <<>>
    /\ UNCHANGED <<registry, config, panel, specs, reports, exit, evidence>>

(* A strategy or a backtest raises in a fold, which may be any that is run. *)
WalkRaises ==
    /\ stage = "walk" /\ fold < Len(Folds)
    /\ Rows(Folds[fold + 1]) >= 5
    /\ AfterWalk(Failed(report, {"walk-forward"}))

(* Seeded fault: no returns, nothing to object to. *)
WalkEndsEmpty ==
    /\ stage = "walk" /\ fold = Len(Folds)
    /\ AfterWalk([report EXCEPT !.ran_walk_forward = TRUE])

WalkEnds ==
    /\ stage = "walk" /\ fold = Len(Folds)
    /\ LET sharpe == IF oos = <<>> THEN NaN ELSE Sharpe(oos)
           ran    == [report EXCEPT !.ran_walk_forward = TRUE, !.oos_sharpe = sharpe]
       IN  AfterWalk(
              IF oos = <<>> THEN Failed(ran, {"no OOS returns"})
              ELSE IF ~report.educational /\ Less(sharpe, 0)
              THEN Failed(ran, {"OOS Sharpe"}) ELSE ran)

----------------------------------------------------------------------------
(* _check_declarations: the report is complete. *)
Declare ==
    /\ stage = "declare"
    /\ reports' = Append(reports, Failed(report, Current.missing))
    /\ Begun(specs, Len(reports'))
    /\ UNCHANGED <<registry, config, panel, specs, fold, oos, exit, evidence>>

passed(r) == r.failures = {}

(* Seeded fault: one strategy that passed is enough. *)
JudgeAny ==
    /\ stage = "judge"
    /\ exit' = IF reports = <<>> \/ \E k \in DOMAIN reports : passed(reports[k]) THEN "0" ELSE "1"
    /\ stage' = "done"
    /\ UNCHANGED <<registry, config, panel, specs, report, fold, oos, reports, evidence>>

(* main: 0 if all passed, of no strategies too. *)
Judge ==
    /\ stage = "judge"
    /\ exit' = IF \A k \in DOMAIN reports : passed(reports[k]) THEN "0" ELSE "1"
    /\ stage' = "done"
    /\ UNCHANGED <<registry, config, panel, specs, report, fold, oos, reports, evidence>>

GateNext ==
    \/ \E entry \in Entry : register(entry) \/ registerTwice(entry)
    \/ SpecHook
    \/ ReferenceRaises \/ ReferenceRuns \/ BenchmarkRaises
    \/ FoldSkipped \/ FoldRuns \/ WalkRaises \/ WalkEnds
    \/ Declare
    \/ Judge

----------------------------------------------------------------------------
(* Properties. *)

(* The walk of every configuration through the panel is an honest one.      *)
FoldsHonest ==
    \A c \in Config, expanding \in BOOLEAN :
        HonestWalk(panel, c.train_periods, c.test_periods, expanding, c.step)

(* NaN is not less than the margin, and one equal to it is enough. *)
Reaches(alpha, least) == alpha = NaN \/ alpha >= least

(* The fold lies in a panel of n rows, all its test rows behind all rows it *)
(* trains on; a later fold may train on them.                               *)
TestedBehind(f, n) ==
    /\ TestRows(f) # {} /\ TestRows(f) \subseteq 1..n
    /\ TrainRows(f) # {}
    /\ \A row \in TestRows(f), trained \in TrainRows(f) : trained < row

Earned(entry, r, e) ==
    /\ r.name = entry.name
    /\ entry.missing = {}
    /\ e.completed
    /\ config.require_walk_forward => e.folds # {} /\ \A f \in e.folds : TestedBehind(f, panel)
    /\ ~entry.educational =>
          /\ Reaches(r.alpha_bps, config.min_alpha_bps)
          /\ config.require_walk_forward => r.oos_sharpe \in {0, 1}

(* An exit status of 0 stands for evidence: each spec has a report of its   *)
(* own; its reference backtest came to its end; where a walk-forward is     *)
(* required some fold was backtested, each behind its own train window; all *)
(* was declared; and a strategy that is not educational is not seen to miss *)
(* the required margin or to lose out of sample.  That is what the code     *)
(* compares, with <: the heading of gate.py says that the benchmark is      *)
(* strictly beaten, but an alpha equal to the margin, 0 by default, or of   *)
(* NaN passes.  One failure anywhere makes the status 1.                    *)
PassIsEarned ==
    /\ exit = "0" =>
          /\ Len(reports) = Len(specs)
          /\ \A k \in DOMAIN specs : Earned(specs[k], reports[k], evidence[k])
    /\ exit = "1" => \E k \in DOMAIN reports : reports[k].failures # {}
=============================================================================
