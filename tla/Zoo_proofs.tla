------------------------------ MODULE Zoo_proofs ------------------------------
(***************************************************************************)
(* Proofs about Zoo: that a walk is honest whatever its lengths, that the  *)
(* exit status of the gate stands for evidence, that the schedule of the   *)
(* strategies has one rebalance in a period and their signals never look   *)
(* ahead.                                                                  *)
(***************************************************************************)
EXTENDS Zoo, Lemmas

----------------------------------------------------------------------------
(* Arithmetic of windows that advance by a step. *)

(* A quotient is the number of whole steps that fit. *)
LEMMA Quotient ==
    ASSUME NEW a \in Nat, NEW b \in Nat \ {0}
    PROVE  /\ a \div b \in Nat
           /\ (a \div b) * b <= a
           /\ a < (a \div b) * b + b
  OBVIOUS

(* Later windows begin a step later, or more. *)
LEMMA StepsApart ==
    ASSUME NEW i \in Nat, NEW j \in Nat, NEW s \in Nat \ {0}, i < j
    PROVE  /\ i * s \in Nat
           /\ j * s \in Nat
           /\ i * s + s <= j * s
  <1>1. PICK e \in Nat : j = i + 1 + e
    <2>1. j - i - 1 \in Nat /\ j = i + 1 + (j - i - 1)
      OBVIOUS
    <2> QED
      BY <2>1
  <1>2. i * s \in Nat /\ e * s \in Nat
    OBVIOUS
  <1>3. j * s = i * s + s + e * s
    BY <1>1
  <1> QED
    BY <1>2, <1>3

(* A walk of positive lengths and step is honest in an index of any length. *)
THEOREM WalkIsHonest ==
    ASSUME NEW n \in Nat, NEW train \in Nat \ {0}, NEW test \in Nat \ {0},
           NEW expanding \in BOOLEAN, NEW step \in Nat \ {0}
    PROVE  HonestWalk(n, train, test, expanding, step)
  <1> DEFINE folds == walk_forward(n, train, test, expanding, step)
             m     == FoldCount(n, train, test, step)
  <1>1. m \in Nat /\ (m = 0 <=> n < train + test)
    <2>1. CASE n < train + test
      BY <2>1 DEF FoldCount
    <2>2. CASE ~(n < train + test)
      <3>1. n - train - test \in Nat
        BY <2>2
      <3>2. (n - train - test) \div step \in Nat
        BY <3>1, Quotient
      <3> QED
        BY <2>2, <3>2 DEF FoldCount
    <2> QED
      BY <2>1, <2>2
  <1>2. m > 0 => /\ (m - 1) * step \in Nat
                 /\ (m - 1) * step + train + test <= n
                 /\ n < (m - 1) * step + train + test + step
    <2>1. SUFFICES ASSUME m > 0
                   PROVE  /\ (m - 1) * step \in Nat
                          /\ (m - 1) * step + train + test <= n
                          /\ n < (m - 1) * step + train + test + step
      OBVIOUS
    <2> DEFINE d == n - train - test
    <2>2. d \in Nat /\ m - 1 = d \div step
      <3>1. ~(n < train + test)
        BY <1>1, <2>1
      <3>2. d \in Nat
        BY <3>1
      <3>3. d \div step \in Nat
        BY <3>2, Quotient
      <3> QED
        BY <3>1, <3>2, <3>3 DEF FoldCount
    <2>3. /\ d \div step \in Nat
          /\ (d \div step) * step <= d
          /\ d < (d \div step) * step + step
      BY <2>2, Quotient
    <2>4. (m - 1) * step <= d /\ d < (m - 1) * step + step
      BY <2>2, <2>3
    <2>5. (m - 1) * step \in Nat
      BY <1>1, <2>1
    <2> QED
      BY <2>4, <2>5
  <1>3. \A k \in 1..m : /\ (k - 1) * step \in Nat
                        /\ (k - 1) * step + train + test <= n
    <2>1. SUFFICES ASSUME NEW k \in 1..m
                   PROVE  /\ (k - 1) * step \in Nat
                          /\ (k - 1) * step + train + test <= n
      OBVIOUS
    <2>2. CASE k = m
      BY <1>1, <1>2, <2>2
    <2>3. CASE k < m
      <3>1. (k - 1) * step \in Nat /\ (k - 1) * step + step <= (m - 1) * step
        BY <1>1, <2>3, StepsApart, k - 1 \in Nat, m - 1 \in Nat, k - 1 < m - 1
      <3> QED
        BY <1>1, <1>2, <3>1
    <2> QED
      BY <1>1, <2>2, <2>3
  <1>4. \A i, k \in 1..m : i < k => (i - 1) * step + step <= (k - 1) * step
    <2>1. SUFFICES ASSUME NEW i \in 1..m, NEW k \in 1..m, i < k
                   PROVE  (i - 1) * step + step <= (k - 1) * step
      OBVIOUS
    <2> QED
      BY <1>1, <2>1, StepsApart, i - 1 \in Nat, k - 1 \in Nat, i - 1 < k - 1
  <1>5. /\ Len(folds) = m
        /\ \A k \in 1..m : folds[k] = Fold((k - 1) * step, train, test, expanding)
    BY <1>1 DEF walk_forward
  <1> HIDE DEF folds, m
  <1>6. \A k \in 1..m :
           /\ folds[k].test_start = folds[k].train_end + 1
           /\ folds[k].test_end = folds[k].test_start + test - 1
           /\ folds[k].test_end <= n
           /\ folds[k].train_start >= 1
           /\ expanding => folds[k].train_start = 1
           /\ ~expanding => folds[k].train_end = folds[k].train_start + train - 1
    <2>1. SUFFICES ASSUME NEW k \in 1..m, NEW start \in Nat, start = (k - 1) * step
                   PROVE  /\ folds[k].test_start = folds[k].train_end + 1
                          /\ folds[k].test_end = folds[k].test_start + test - 1
                          /\ folds[k].test_end <= n
                          /\ folds[k].train_start >= 1
                          /\ expanding => folds[k].train_start = 1
                          /\ ~expanding => folds[k].train_end = folds[k].train_start + train - 1
      BY <1>3
    <2>2. folds[k] = Fold(start, train, test, expanding) /\ start + train + test <= n
      BY <1>3, <1>5, <2>1
    <2> QED
      BY <2>2 DEF Fold
  <1>7. \A k \in 1..m, i \in 1..m :
           i < k => /\ folds[i].test_start < folds[k].test_start
                    /\ step >= test => TestRows(folds[i]) \intersect TestRows(folds[k]) = {}
    <2>1. SUFFICES ASSUME NEW k \in 1..m, NEW i \in 1..m, i < k,
                          NEW a \in Nat, a = (i - 1) * step, NEW b \in Nat, b = (k - 1) * step
                   PROVE  /\ folds[i].test_start < folds[k].test_start
                          /\ step >= test => TestRows(folds[i]) \intersect TestRows(folds[k]) = {}
      BY <1>3
    <2>2. /\ folds[i] = Fold(a, train, test, expanding)
          /\ folds[k] = Fold(b, train, test, expanding)
          /\ a + step <= b
      BY <1>4, <1>5, <2>1
    <2> QED
      BY <2>2 DEF Fold, TestRows
  <1>8. m > 0 => folds[1].train_start = 1 /\ folds[m].test_end + step > n
    <2>1. SUFFICES ASSUME m > 0
                   PROVE  folds[1].train_start = 1 /\ folds[m].test_end + step > n
      OBVIOUS
    <2>2. folds[1] = Fold(0, train, test, expanding)
      BY <1>1, <1>5, <2>1, (1 - 1) * step = 0
    <2>3. folds[m].test_end = (m - 1) * step + train + test
      BY <1>1, <1>5, <2>1 DEF Fold
    <2> QED
      BY <1>2, <2>1, <2>2, <2>3 DEF Fold
  <1> QED
    BY <1>1, <1>5, <1>6, <1>7, <1>8 DEF HonestWalk, folds

----------------------------------------------------------------------------
(* The inductive invariant: what is known of the panel, of the reports that *)
(* are complete, and of the one in the making.                              *)

Failure == Declaration \union {"backtest", "alpha", "walk-forward", "no OOS returns", "OOS Sharpe"}

Report ==
    [name : STRING, educational : BOOLEAN, ran_backtest : BOOLEAN, ran_walk_forward : BOOLEAN,
     alpha_bps : Int \union {NaN}, oos_sharpe : {-1, 0, 1, NaN}, failures : SUBSET Failure]

Upcoming == Len(reports) + 1

Window == [train_start : Nat, train_end : Nat, test_start : Nat, test_end : Nat]

PanelTypes ==
    /\ day \in Nat
    /\ index \in Seq(Nat)
    /\ panel \in Nat

GateTypes ==
    /\ panel > 0 => config \in Config
    /\ \A name \in DOMAIN registry : registry[name] \in Entry
    /\ specs \in Seq(Entry) /\ Len(specs) <= MaxSpecs
    /\ reports \in Seq(Report) /\ Len(reports) <= Len(specs)
    /\ evidence \in [1..MaxSpecs -> [completed : BOOLEAN, folds : SUBSET Window]]
    /\ stage \in {"import", "reference", "walk", "declare", "judge", "done"}
    /\ fold \in Nat

(* The gate begins when the panel is complete and ends with the status.     *)
GateOrder ==
    /\ panel = 0 => stage = "import"
    /\ stage = "import" => specs = <<>> /\ \A k \in 1..MaxSpecs : evidence[k].folds = {}
    /\ stage \in {"reference", "walk", "declare"} => Len(reports) < Len(specs)
    /\ stage = "judge" => Len(reports) = Len(specs)
    /\ exit \in {"0", "1"} => stage = "done"

(* Each fold that was tested lies behind its train window, in the panel.    *)
FoldsBehind ==
    \A k \in 1..MaxSpecs : \A f \in evidence[k].folds : TestedBehind(f, panel)

(* The report in the making is that of the next spec.                       *)
ReportOpen ==
    stage \in {"reference", "walk", "declare"} =>
        /\ report \in Report
        /\ report.name = specs[Upcoming].name
        /\ report.educational = specs[Upcoming].educational

(* Without a failure so far it has what its stage asks for.                 *)
ReportEarns ==
    /\ stage # "walk" => oos = <<>>
    /\ stage = "walk" /\ oos # <<>> => evidence[Upcoming].folds # {}
    /\ stage \in {"walk", "declare"} /\ report.failures = {} =>
          /\ evidence[Upcoming].completed
          /\ ~report.educational => Reaches(report.alpha_bps, config.min_alpha_bps)
    /\ stage = "declare" /\ report.failures = {} /\ config.require_walk_forward =>
          /\ evidence[Upcoming].folds # {}
          /\ ~report.educational => report.oos_sharpe \in {0, 1}

ReportsEarned ==
    \A k \in 1..Len(reports) :
        reports[k].failures = {} => Earned(specs[k], reports[k], evidence[k])

ExitTells ==
    /\ exit = "0" => /\ Len(reports) = Len(specs)
                     /\ \A k \in 1..Len(reports) : reports[k].failures = {}
    /\ exit = "1" => \E k \in 1..Len(reports) : reports[k].failures # {}

ZooInv ==
    /\ PanelTypes /\ GateTypes /\ GateOrder /\ FoldsBehind
    /\ ReportOpen /\ ReportEarns /\ ReportsEarned /\ ExitTells

LEMMA ConfigTypes ==
    ASSUME NEW c \in Config
    PROVE  /\ c.min_alpha_bps \in Int
           /\ c.require_walk_forward \in BOOLEAN
           /\ c.train_periods \in Nat \ {0}
           /\ c.test_periods \in Nat \ {0}
           /\ c.step \in Nat \ {0}
  BY GateAssumption DEF HonestyGateConfig

LEMMA EntryTypes ==
    ASSUME NEW e \in Entry
    PROVE  e.name \in STRING /\ e.educational \in BOOLEAN /\ e.missing \subseteq Declaration
  BY GateAssumption DEF StrategyEntry

LEMMA Fresh ==
    ASSUME NEW e \in Entry
    PROVE  /\ NewReport(e) \in Report
           /\ NewReport(e).name = e.name
           /\ NewReport(e).educational = e.educational
  BY EntryTypes DEF NewReport, Report

LEMMA SharpeSign == ASSUME NEW returns PROVE Sharpe(returns) \in {-1, 0, 1}
  BY DEF Sharpe

LEMMA Counted ==
    ASSUME NEW n \in Nat, NEW train \in Nat \ {0}, NEW test \in Nat \ {0},
           NEW expanding \in BOOLEAN, NEW step \in Nat \ {0}
    PROVE  /\ FoldCount(n, train, test, step) \in Nat
           /\ Len(walk_forward(n, train, test, expanding, step)) = FoldCount(n, train, test, step)
  <1>1. FoldCount(n, train, test, step) \in Nat
    <2>1. CASE n < train + test
      BY <2>1 DEF FoldCount
    <2>2. CASE ~(n < train + test)
      <3>1. n - train - test \in Nat
        BY <2>2
      <3>2. (n - train - test) \div step \in Nat
        BY <3>1, Quotient
      <3> QED
        BY <2>2, <3>2 DEF FoldCount
    <2> QED
      BY <2>1, <2>2
  <1> QED
    BY <1>1 DEF walk_forward

(* A test window that is not empty, as one of five rows or more is not, lies *)
(* behind its train window and within the rows.                              *)
LEMMA TestedRows ==
    ASSUME NEW n \in Nat, NEW train \in Nat \ {0}, NEW test \in Nat \ {0},
           NEW expanding \in BOOLEAN, NEW step \in Nat \ {0},
           NEW k \in 1..Len(walk_forward(n, train, test, expanding, step))
    PROVE  LET f == walk_forward(n, train, test, expanding, step)[k]
           IN  /\ f \in Window
               /\ Rows(f) >= 5 => TestedBehind(f, n)
  <1> DEFINE m == FoldCount(n, train, test, step)
             f == walk_forward(n, train, test, expanding, step)[k]
  <1>1. m \in Nat
    BY Counted
  <1>2. /\ k \in 1..m
        /\ f = Fold((k - 1) * step, train, test, expanding)
    BY <1>1 DEF walk_forward
  <1>3. f.test_end <= n
    BY WalkIsHonest DEF HonestWalk
  <1> HIDE DEF f, m
  <1>4. PICK start \in Nat : start = (k - 1) * step
    BY <1>1, <1>2
  <1>5. f = Fold(start, train, test, expanding)
    BY <1>2, <1>4
  <1>6. f \in Window
    BY <1>5 DEF Fold, Window
  <1>7. /\ f.train_start \in 1..f.train_end
        /\ f.train_end < f.test_start
    BY <1>5 DEF Fold
  <1>8. TestRows(f) = {} => Rows(f) = 0
    BY FS_EmptySet DEF Rows
  <1>9. Rows(f) >= 5 => TestRows(f) # {}
    BY <1>8
  <1>10. TestRows(f) \subseteq 1..n
    BY <1>3, <1>6, <1>7 DEF TestRows, Window
  <1>11. /\ TrainRows(f) # {}
         /\ \A row \in TestRows(f), trained \in TrainRows(f) : trained < row
    BY <1>6, <1>7 DEF TestRows, TrainRows, Window
  <1>12. Rows(f) >= 5 => TestedBehind(f, n)
    BY <1>9, <1>10, <1>11 DEF TestedBehind
  <1> QED
    BY <1>6, <1>12 DEF f

LEMMA ZooInit ==
    ASSUME Init
    PROVE  ZooInv
  <1> USE DEF Init, StrategiesInit, GateInit
  <1>1. PanelTypes
    BY DEF PanelTypes
  <1>2. GateTypes
    <2>1. \A name \in DOMAIN registry : registry[name] \in Entry
      OBVIOUS
    <2>2. evidence \in [1..MaxSpecs -> [completed : BOOLEAN, folds : SUBSET Window]]
      OBVIOUS
    <2>3. /\ specs \in Seq(Entry) /\ Len(specs) <= MaxSpecs
          /\ reports \in Seq(Report) /\ Len(reports) <= Len(specs)
      BY GateAssumption
    <2> QED
      BY <2>1, <2>2, <2>3 DEF GateTypes
  <1>3. GateOrder /\ FoldsBehind
    BY DEF GateOrder, FoldsBehind
  <1>4. ReportOpen /\ ReportEarns /\ ReportsEarned /\ ExitTells
    BY DEF ReportOpen, ReportEarns, ReportsEarned, ExitTells
  <1> QED
    BY <1>1, <1>2, <1>3, <1>4 DEF ZooInv

(* What the conjuncts other than PanelTypes say does not change with the    *)
(* variables of the research.                                               *)
LEMMA GateKept ==
    ASSUME ZooInv, UNCHANGED gateVars, PanelTypes'
    PROVE  ZooInv'
  <1> USE DEF gateVars
  <1>1. GateTypes' /\ GateOrder' /\ FoldsBehind'
    BY DEF ZooInv, GateTypes, GateOrder, FoldsBehind
  <1>2. ReportOpen' /\ ReportEarns'
    BY DEF ZooInv, ReportOpen, ReportEarns, Upcoming
  <1>3. ReportsEarned' /\ ExitTells'
    BY DEF ZooInv, ReportsEarned, ExitTells, Earned
  <1> QED
    BY <1>1, <1>2, <1>3 DEF ZooInv

LEMMA ResearchStep ==
    ASSUME ZooInv, Research
    PROVE  ZooInv'
  <1>1. PanelTypes'
    <2> USE DEF PanelTypes, ZooInv, Research, gateVars
    <2>1. CASE TradingDay
      BY <2>1 DEF TradingDay
    <2>2. CASE ClosedDay
      BY <2>2 DEF ClosedDay
    <2> QED
      BY <2>1, <2>2 DEF StrategiesNext
  <1> QED
    BY <1>1, GateKept DEF Research

LEMMA HandOverStep ==
    ASSUME ZooInv, HandOver
    PROVE  ZooInv'
  <1> USE DEF HandOver
  <1>1. PanelTypes' /\ panel' > 0
    <2>1. Len(index) \in Nat /\ (index # <<>> => Len(index) > 0)
      BY DEF ZooInv, PanelTypes
    <2> QED
      BY <2>1 DEF PanelTypes
  <1>2. stage = "import" /\ \A k \in 1..MaxSpecs : evidence[k].folds = {}
    BY DEF ZooInv, GateOrder
  <1>3. GateTypes'
    BY DEF ZooInv, GateTypes
  <1>4. GateOrder'
    BY <1>1, <1>2 DEF ZooInv, GateOrder
  <1>5. FoldsBehind'
    BY <1>2 DEF FoldsBehind
  <1>6. ReportOpen' /\ ReportEarns'
    BY <1>2 DEF ZooInv, ReportOpen, ReportEarns
  <1>7. Len(reports) = 0
    BY <1>2 DEF ZooInv, GateTypes, GateOrder
  <1>8. ReportsEarned' /\ ExitTells'
    BY <1>2, <1>7 DEF ZooInv, ReportsEarned, ExitTells, GateOrder
  <1> QED
    BY <1>1, <1>3, <1>4, <1>5, <1>6, <1>8 DEF ZooInv

(* Each step of the gate, over a complete panel.                            *)
LEMMA RegisterStep ==
    ASSUME ZooInv, panel > 0, NEW entry \in Entry, register(entry) \/ registerTwice(entry),
           UNCHANGED strategyVars
    PROVE  ZooInv'
  <1> USE DEF register, registerTwice, strategyVars
  <1>1. PanelTypes'
    BY DEF ZooInv, PanelTypes
  <1>2. \A name \in DOMAIN registry' : registry'[name] \in Entry
    <2>1. CASE register(entry)
      BY <2>1 DEF ZooInv, GateTypes
    <2>2. CASE registerTwice(entry)
      BY <2>2 DEF ZooInv, GateTypes
    <2> QED
      BY <2>1, <2>2
  <1>3. GateTypes'
    BY <1>2 DEF ZooInv, GateTypes
  <1>4. stage = "import" /\ stage' \in {"import", "done"}
    BY DEF ZooInv, GateTypes
  <1>5. GateOrder'
    BY <1>4 DEF ZooInv, GateOrder, PanelTypes
  <1>6. FoldsBehind' /\ ReportOpen'
    BY <1>4 DEF ZooInv, FoldsBehind, ReportOpen
  <1>7. ReportEarns'
    BY <1>4 DEF ZooInv, ReportEarns
  <1>8. ReportsEarned' /\ ExitTells'
    BY <1>4 DEF ZooInv, ReportsEarned, ExitTells, Earned, GateOrder
  <1> QED
    BY <1>1, <1>3, <1>5, <1>6, <1>7, <1>8 DEF ZooInv

LEMMA HookStep ==
    ASSUME ZooInv, panel > 0, SpecHook, UNCHANGED strategyVars
    PROVE  ZooInv'
  <1> USE DEF SpecHook, Begun, strategyVars
  <1>1. PanelTypes'
    BY DEF ZooInv, PanelTypes
  <1>2. /\ reports = <<>> /\ Len(reports) = 0
        /\ exit \notin {"0", "1"}
        /\ \A k \in 1..MaxSpecs : evidence[k].folds = {}
    BY DEF ZooInv, GateTypes, GateOrder
  <1>3. specs' \in Seq(Entry) /\ Len(specs') <= MaxSpecs
    <2>1. PICK list \in SeqOf(Range(registry), MaxSpecs) : specs' = list
      OBVIOUS
    <2>2. PICK m \in 0..MaxSpecs : list \in [1..m -> Range(registry)]
      BY <2>1 DEF SeqOf
    <2>3. Range(registry) \subseteq Entry
      BY DEF ZooInv, GateTypes, Range
    <2> QED
      BY <2>1, <2>2, <2>3, GateAssumption
  <1>4. GateTypes'
    BY <1>3, <1>2 DEF ZooInv, GateTypes
  <1>5. CASE 0 < Len(specs')
    <2>1. stage' = "reference" /\ report' = NewReport(specs'[1])
      BY <1>3, <1>5
    <2>2. report' \in Report /\ report'.name = specs'[1].name
          /\ report'.educational = specs'[1].educational
      BY <1>3, <1>5, <2>1, Fresh
    <2>3. GateOrder' /\ FoldsBehind'
      BY <1>2, <1>3, <1>5, <2>1 DEF ZooInv, GateOrder, FoldsBehind
    <2>4. ReportOpen'
      BY <1>2, <2>1, <2>2 DEF ReportOpen, Upcoming
    <2>5. ReportEarns'
      BY <2>1 DEF ZooInv, ReportEarns
    <2>6. ReportsEarned' /\ ExitTells'
      BY <1>2 DEF ReportsEarned, ExitTells
    <2> QED
      BY <1>1, <1>4, <2>3, <2>4, <2>5, <2>6 DEF ZooInv
  <1>6. CASE ~(0 < Len(specs'))
    <2>1. stage' = "judge" /\ Len(specs') = 0
      BY <1>3, <1>6
    <2>2. GateOrder' /\ FoldsBehind'
      BY <1>2, <1>3, <2>1 DEF ZooInv, GateOrder, FoldsBehind
    <2>3. ReportOpen' /\ ReportEarns'
      BY <2>1 DEF ZooInv, ReportOpen, ReportEarns
    <2>4. ReportsEarned' /\ ExitTells'
      BY <1>2 DEF ReportsEarned, ExitTells
    <2> QED
      BY <1>1, <1>4, <2>2, <2>3, <2>4 DEF ZooInv
  <1> QED
    BY <1>5, <1>6

(* What all the steps of an evaluation share: the report after the complete *)
(* ones is of a spec that is there.                                         *)
LEMMA AtReport ==
    ASSUME ZooInv, stage \in {"reference", "walk", "declare"}
    PROVE  /\ Upcoming \in 1..Len(specs) /\ Upcoming \in 1..MaxSpecs
           /\ \A k \in 1..Len(reports) : k \in 1..MaxSpecs /\ k # Upcoming
           /\ specs[Upcoming] \in Entry
           /\ Current = specs[Upcoming]
           /\ report \in Report
  BY GateAssumption DEF ZooInv, GateTypes, GateOrder, ReportOpen, Upcoming, Current

(* A step to a report r of the same spec, with evidence that grows for this *)
(* spec only.                                                               *)
LEMMA ReportKept ==
    ASSUME ZooInv, panel > 0,
           stage \in {"reference", "walk"}, stage' \in {"walk", "declare"},
           UNCHANGED <<registry, config, panel, specs, reports, exit>>, UNCHANGED strategyVars,
           report' \in Report, report'.name = report.name,
           report'.educational = report.educational,
           evidence' \in [1..MaxSpecs -> [completed : BOOLEAN, folds : SUBSET Window]],
           \A k \in 1..MaxSpecs : k # Upcoming => evidence'[k] = evidence[k],
           \A f \in evidence'[Upcoming].folds : TestedBehind(f, panel),
           fold' \in Nat, ReportEarns'
    PROVE  ZooInv'
  <1>1. PanelTypes'
    BY DEF ZooInv, PanelTypes, strategyVars
  <1>2. GateTypes'
    BY DEF ZooInv, GateTypes
  <1>3. GateOrder'
    BY DEF ZooInv, GateOrder, PanelTypes
  <1>4. FoldsBehind'
    BY DEF ZooInv, FoldsBehind
  <1>5. ReportOpen'
    BY DEF ZooInv, ReportOpen, Upcoming
  <1>6. ReportsEarned'
    BY AtReport DEF ZooInv, ReportsEarned, Earned
  <1>7. ExitTells'
    BY DEF ZooInv, ExitTells
  <1> QED
    BY <1>1, <1>2, <1>3, <1>4, <1>5, <1>6, <1>7 DEF ZooInv

LEMMA ReferenceStep ==
    ASSUME ZooInv, panel > 0, ReferenceRaises \/ ReferenceRuns, UNCHANGED strategyVars
    PROVE  ZooInv'
  <1>1. stage = "reference"
    BY DEF ReferenceRaises, ReferenceRuns
  <1>2. config \in Config /\ oos = <<>>
    BY <1>1 DEF ZooInv, GateTypes, ReportEarns
  <1>3. CASE ReferenceRaises
    <2>1. PICK ran \in BOOLEAN :
             AfterReference(Failed([report EXCEPT !.ran_backtest = ran], {"backtest"}))
      BY <1>3 DEF ReferenceRaises
    <2>2. /\ report' \in Report /\ report'.name = report.name
          /\ report'.educational = report.educational
          /\ report'.failures # {}
      BY <1>1, <2>1, AtReport DEF AfterReference, Failed, Report, Failure
    <2>3. evidence' = evidence
      BY <1>3 DEF ReferenceRaises
    <2>4. ReportEarns'
      BY <1>2, <2>1, <2>2 DEF AfterReference, ReportEarns
    <2>5. \A f \in evidence[Upcoming].folds : TestedBehind(f, panel)
      BY <1>1, AtReport DEF ZooInv, FoldsBehind
    <2>6. evidence \in [1..MaxSpecs -> [completed : BOOLEAN, folds : SUBSET Window]] /\ fold \in Nat
      BY DEF ZooInv, GateTypes
    <2> QED
      BY <1>1, <2>1, <2>2, <2>3, <2>4, <2>5, <2>6, ReportKept DEF AfterReference
  <1>4. CASE ReferenceRuns
    <2>1. PICK net \in Cagr, benchmark \in Cagr :
             LET alpha == Alpha(net, benchmark)
                 ran   == [report EXCEPT !.ran_backtest = TRUE, !.alpha_bps = alpha]
             IN  AfterReference(
                    IF ~report.educational /\ Less(alpha, config.min_alpha_bps)
                    THEN Failed(ran, {"alpha"}) ELSE ran)
      BY <1>4 DEF ReferenceRuns
    <2>2. PICK alpha \in Int \union {NaN} : alpha = Alpha(net, benchmark)
      BY GateAssumption DEF Alpha
    <2>3. PICK ran \in Report : ran = [report EXCEPT !.ran_backtest = TRUE, !.alpha_bps = alpha]
      BY <1>1, <2>2, AtReport DEF Report
    <2>4. report' = IF ~report.educational /\ Less(alpha, config.min_alpha_bps)
                    THEN Failed(ran, {"alpha"}) ELSE ran
      BY <2>1, <2>2, <2>3 DEF AfterReference
    <2>5. /\ ran.name = report.name /\ ran.educational = report.educational
          /\ ran.alpha_bps = alpha
      BY <1>1, <2>3, AtReport DEF Report
    <2>6. /\ report' \in Report /\ report'.name = report.name
          /\ report'.educational = report.educational
          /\ report'.failures = {} /\ ~report.educational =>
                Reaches(report'.alpha_bps, config.min_alpha_bps)
          /\ report'.ran_backtest = TRUE
      <3>1. CASE ~report.educational /\ Less(alpha, config.min_alpha_bps)
        BY <2>3, <2>4, <2>5, <3>1, AtReport, <1>1 DEF Failed, Report, Failure
      <3>2. CASE ~(~report.educational /\ Less(alpha, config.min_alpha_bps))
        BY <1>2, <2>3, <2>4, <2>5, <3>2, ConfigTypes, GateAssumption, AtReport, <1>1
        DEF Report, Less, Reaches
      <3> QED
        BY <3>1, <3>2
    <2>7. evidence' = [evidence EXCEPT ![Upcoming].completed = TRUE]
      BY <1>4 DEF ReferenceRuns, Upcoming
    <2>8. /\ evidence' \in [1..MaxSpecs -> [completed : BOOLEAN, folds : SUBSET Window]]
          /\ \A k \in 1..MaxSpecs : k # Upcoming => evidence'[k] = evidence[k]
          /\ evidence'[Upcoming].completed
          /\ evidence'[Upcoming].folds = evidence[Upcoming].folds
      BY <1>1, <2>7, AtReport DEF ZooInv, GateTypes
    <2>9. /\ stage' = IF config.require_walk_forward /\ report'.ran_backtest THEN "walk" ELSE "declare"
          /\ UNCHANGED <<registry, config, panel, specs, fold, oos, reports, exit>>
      BY <2>1 DEF AfterReference
    <2>10. ReportEarns'
      BY <1>2, <2>6, <2>8, <2>9, ConfigTypes DEF ReportEarns, Upcoming
    <2>11. /\ fold \in Nat
          /\ \A f \in evidence[Upcoming].folds : TestedBehind(f, panel)
      BY <1>1, AtReport DEF ZooInv, FoldsBehind, GateTypes
    <2> QED
      BY <1>1, <2>6, <2>8, <2>9, <2>10, <2>11, ReportKept
  <1> QED
    BY <1>3, <1>4

(* The benchmark ends the gate.                                             *)
LEMMA BenchmarkStep ==
    ASSUME ZooInv, panel > 0, BenchmarkRaises, UNCHANGED strategyVars
    PROVE  ZooInv'
  <1> USE DEF strategyVars
  <1>1. /\ stage = "reference" /\ stage' = "done"
        /\ reports' = <<>> /\ exit' = "raised"
        /\ UNCHANGED <<registry, config, panel, specs, report, fold, oos, evidence>>
    BY Zenon DEF BenchmarkRaises
  <1>2. reports' \in Seq(Report) /\ Len(reports') = 0
    BY <1>1
  <1>3. PanelTypes'
    BY <1>1 DEF ZooInv, PanelTypes
  <1>4. GateTypes'
    <2>1. Len(specs) \in Nat
      BY DEF ZooInv, GateTypes
    <2> QED
      BY <1>1, <1>2, <2>1 DEF ZooInv, GateTypes
  <1>5. GateOrder' /\ FoldsBehind'
    BY <1>1 DEF ZooInv, GateOrder, FoldsBehind, PanelTypes
  <1>6. ReportOpen' /\ ReportEarns'
    BY <1>1 DEF ZooInv, ReportOpen, ReportEarns
  <1>7. ReportsEarned' /\ ExitTells'
    BY <1>1, <1>2 DEF ReportsEarned, ExitTells
  <1> QED
    BY <1>3, <1>4, <1>5, <1>6, <1>7 DEF ZooInv

(* A fold, skipped or run.                                                  *)
LEMMA FoldStep ==
    ASSUME ZooInv, panel > 0, FoldSkipped \/ FoldRuns, UNCHANGED strategyVars
    PROVE  ZooInv'
  <1> USE DEF strategyVars
  <1>1. stage = "walk" /\ stage' = "walk"
        /\ UNCHANGED <<registry, config, panel, specs, report, reports, exit>>
    BY DEF FoldSkipped, FoldRuns
  <1>2. /\ evidence' \in [1..MaxSpecs -> [completed : BOOLEAN, folds : SUBSET Window]]
        /\ \A k \in 1..MaxSpecs : k # Upcoming => evidence'[k] = evidence[k]
        /\ evidence'[Upcoming].completed = evidence[Upcoming].completed
        /\ \A f \in evidence'[Upcoming].folds : TestedBehind(f, panel)
        /\ oos' # <<>> => evidence'[Upcoming].folds # {}
    <2>1. evidence \in [1..MaxSpecs -> [completed : BOOLEAN, folds : SUBSET Window]]
      BY DEF ZooInv, GateTypes
    <2>2. \A f \in evidence[Upcoming].folds : TestedBehind(f, panel)
      BY <1>1, AtReport DEF ZooInv, FoldsBehind
    <2>3. CASE FoldSkipped
      <3>1. evidence' = evidence /\ oos' = oos
        BY <2>3 DEF FoldSkipped
      <3> QED
        BY <1>1, <2>1, <2>2, <3>1 DEF ZooInv, ReportEarns
    <2>4. CASE FoldRuns
      <3> DEFINE f == Folds[fold + 1]
      <3>1. f \in Window /\ TestedBehind(f, panel)
        <4>1. fold < Len(Folds) /\ Rows(Folds[fold + 1]) >= 5
          BY <2>4 DEF FoldRuns
        <4>2. config \in Config /\ panel \in Nat /\ fold \in Nat
          BY DEF ZooInv, GateTypes, PanelTypes
        <4>3. Len(Folds) \in Nat
          <5>1. /\ config.train_periods \in Nat \ {0} /\ config.test_periods \in Nat \ {0}
                /\ config.step \in Nat \ {0}
            BY <4>2, ConfigTypes
          <5>2. \A expanding \in BOOLEAN :
                   Len(walk_forward(panel, config.train_periods, config.test_periods,
                                    expanding, config.step)) \in Nat
            BY <4>2, <5>1, Counted
          <5> QED
            BY <5>2, Zenon DEF Folds
        <4>4. fold + 1 \in 1..Len(Folds)
          BY <4>1, <4>2, <4>3
        <4>5. /\ config.train_periods \in Nat \ {0} /\ config.test_periods \in Nat \ {0}
              /\ config.step \in Nat \ {0}
          BY <4>2, ConfigTypes
        <4>6. Folds[fold + 1] \in Window
          BY <4>2, <4>4, <4>5, TestedRows, Zenon DEF Folds
        <4>7. Rows(Folds[fold + 1]) >= 5 => TestedBehind(Folds[fold + 1], panel)
          BY <4>2, <4>4, <4>5, TestedRows, Zenon DEF Folds
        <4> QED
          BY <4>1, <4>6, <4>7
      <3>2. evidence' = [evidence EXCEPT ![Upcoming].folds = @ \union {f}]
        BY <2>4 DEF FoldRuns, Upcoming
      <3> HIDE DEF f
      <3>3. Upcoming \in 1..MaxSpecs
        BY <1>1, AtReport
      <3> QED
        BY <2>1, <2>2, <3>1, <3>2, <3>3
    <2> QED
      BY <2>3, <2>4
  <1>3. ReportEarns'
    BY <1>1, <1>2 DEF ZooInv, ReportEarns, Upcoming
  <1>4. report \in Report /\ fold' \in Nat
    BY <1>1, AtReport DEF ZooInv, GateTypes, FoldSkipped, FoldRuns
  <1> QED
    BY <1>1, <1>2, <1>3, <1>4, ReportKept

LEMMA WalkEndStep ==
    ASSUME ZooInv, panel > 0, WalkRaises \/ WalkEnds, UNCHANGED strategyVars
    PROVE  ZooInv'
  <1>1. stage = "walk" /\ config \in Config
    BY DEF WalkRaises, WalkEnds, ZooInv, GateTypes
  <1>2. /\ evidence \in [1..MaxSpecs -> [completed : BOOLEAN, folds : SUBSET Window]]
        /\ \A f \in evidence[Upcoming].folds : TestedBehind(f, panel)
    BY <1>1, AtReport DEF ZooInv, GateTypes, FoldsBehind
  <1>3. PICK r : AfterWalk(r)
    BY DEF WalkRaises, WalkEnds
  <1>4. /\ report' = r /\ stage' = "declare" /\ oos' = <<>> /\ fold' = 0
        /\ UNCHANGED <<registry, config, panel, specs, reports, exit, evidence>>
    BY <1>3 DEF AfterWalk
  <1>5. /\ report' \in Report /\ report'.name = report.name
        /\ report'.educational = report.educational
        /\ report'.alpha_bps = report.alpha_bps
        /\ report'.failures = {} =>
              /\ report.failures = {}
              /\ oos # <<>>
              /\ ~report.educational => report'.oos_sharpe \in {0, 1}
    <2>1. CASE WalkRaises
      <3>1. report' = Failed(report, {"walk-forward"})
        BY <2>1 DEF WalkRaises, AfterWalk
      <3> QED
        BY <1>1, <3>1, AtReport DEF Failed, Report, Failure
    <2>2. CASE WalkEnds
      <3>1. PICK sharpe \in {-1, 0, 1, NaN} :
               /\ sharpe = IF oos = <<>> THEN NaN ELSE Sharpe(oos)
               /\ oos # <<>> => sharpe \in {-1, 0, 1}
        BY SharpeSign
      <3>2. PICK ran \in Report :
               ran = [report EXCEPT !.ran_walk_forward = TRUE, !.oos_sharpe = sharpe]
        BY <1>1, AtReport DEF Report
      <3>3. report' = IF oos = <<>> THEN Failed(ran, {"no OOS returns"})
                      ELSE IF ~report.educational /\ Less(sharpe, 0)
                      THEN Failed(ran, {"OOS Sharpe"}) ELSE ran
        BY <2>2, <3>1, <3>2 DEF WalkEnds, AfterWalk
      <3>4. /\ ran.name = report.name /\ ran.educational = report.educational
            /\ ran.alpha_bps = report.alpha_bps /\ ran.failures = report.failures
            /\ ran.oos_sharpe = sharpe
        BY <1>1, <3>2, AtReport DEF Report
      <3>5. CASE oos = <<>>
        BY <3>3, <3>4, <3>5 DEF Failed, Report, Failure
      <3>6. CASE oos # <<>> /\ ~report.educational /\ Less(sharpe, 0)
        BY <3>3, <3>4, <3>6 DEF Failed, Report, Failure
      <3>7. CASE oos # <<>> /\ ~(~report.educational /\ Less(sharpe, 0))
        <4>1. report' = ran
          BY <3>3, <3>7
        <4>2. ~report.educational => sharpe \in {0, 1}
          BY <3>1, <3>7, GateAssumption DEF Less
        <4> QED
          BY <3>4, <3>7, <4>1, <4>2
      <3> QED
        BY <3>5, <3>6, <3>7
    <2> QED
      BY <2>1, <2>2
  <1>6. ReportEarns'
    BY <1>1, <1>4, <1>5 DEF ZooInv, ReportEarns, Upcoming
  <1> QED
    BY <1>1, <1>2, <1>4, <1>5, <1>6, ReportKept

LEMMA DeclareStep ==
    ASSUME ZooInv, panel > 0, Declare, UNCHANGED strategyVars
    PROVE  ZooInv'
  <1> USE DEF strategyVars
  <1> DEFINE r == Failed(report, Current.missing)
  <1>1. stage = "declare" /\ config \in Config
    BY DEF Declare, ZooInv, GateTypes
  <1>2. /\ r \in Report /\ r.name = report.name /\ r.educational = report.educational
        /\ r.alpha_bps = report.alpha_bps /\ r.oos_sharpe = report.oos_sharpe
        /\ r.failures = {} => report.failures = {} /\ specs[Upcoming].missing = {}
    <2>1. Current.missing \subseteq Failure
      BY <1>1, AtReport, EntryTypes DEF Failure
    <2> QED
      BY <1>1, <2>1, AtReport DEF Failed, Report
  <1>3. /\ reports' = Append(reports, r)
        /\ Begun(specs, Len(reports'))
        /\ UNCHANGED <<registry, config, panel, specs, fold, oos, exit, evidence>>
    BY DEF Declare
  <1>4. r.failures = {} => Earned(specs[Upcoming], r, evidence[Upcoming])
    BY <1>1, <1>2, AtReport DEF Earned, ZooInv, ReportOpen, ReportEarns, FoldsBehind
  <1> HIDE DEF r
  <1>5. /\ reports' \in Seq(Report) /\ Len(reports') = Upcoming
        /\ reports'[Upcoming] = r
        /\ \A k \in 1..Len(reports') : k # Upcoming => k \in 1..Len(reports) /\ reports'[k] = reports[k]
    BY <1>2, <1>3 DEF ZooInv, GateTypes, Upcoming
  <1>6. Upcoming \in 1..Len(specs) /\ Upcoming \in 1..MaxSpecs /\ Len(specs) \in Nat
    BY <1>1, AtReport DEF ZooInv, GateTypes
  <1>7. /\ stage' = IF Upcoming < Len(specs) THEN "reference" ELSE "judge"
        /\ Upcoming < Len(specs) => report' = NewReport(specs[Upcoming + 1])
    BY <1>3, <1>5 DEF Begun
  <1>8. PanelTypes'
    BY <1>3 DEF ZooInv, PanelTypes
  <1>9. GateTypes'
    BY <1>3, <1>5, <1>6, <1>7 DEF ZooInv, GateTypes
  <1>10. GateOrder'
    BY <1>1, <1>3, <1>5, <1>6, <1>7 DEF ZooInv, GateOrder, PanelTypes
  <1>11. FoldsBehind'
    BY <1>3 DEF ZooInv, FoldsBehind
  <1>12. ReportOpen'
    <2>1. SUFFICES ASSUME Upcoming < Len(specs)
                   PROVE  ReportOpen'
      BY <1>7 DEF ReportOpen
    <2>2. specs[Upcoming + 1] \in Entry
      BY <1>6, <2>1 DEF ZooInv, GateTypes
    <2>3. /\ report' \in Report /\ report'.name = specs[Upcoming + 1].name
          /\ report'.educational = specs[Upcoming + 1].educational
      BY <1>7, <2>1, <2>2, Fresh
    <2>4. Upcoming' = Upcoming + 1
      BY <1>5 DEF Upcoming
    <2> QED
      BY <1>3, <2>3, <2>4 DEF ReportOpen
  <1>13. ReportEarns'
    BY <1>1, <1>3, <1>7 DEF ZooInv, ReportEarns
  <1>14. ReportsEarned'
    BY <1>3, <1>4, <1>5 DEF ZooInv, ReportsEarned, Earned
  <1>15. ExitTells'
    BY <1>1, <1>3 DEF ZooInv, GateOrder, ExitTells
  <1> QED
    BY <1>8, <1>9, <1>10, <1>11, <1>12, <1>13, <1>14, <1>15 DEF ZooInv

LEMMA JudgeStep ==
    ASSUME ZooInv, panel > 0, Judge, UNCHANGED strategyVars
    PROVE  ZooInv'
  <1> USE DEF Judge, strategyVars
  <1>1. PanelTypes' /\ GateTypes'
    BY DEF ZooInv, PanelTypes, GateTypes
  <1>2. GateOrder' /\ FoldsBehind'
    BY DEF ZooInv, GateOrder, FoldsBehind, PanelTypes
  <1>3. ReportOpen' /\ ReportEarns'
    BY DEF ZooInv, ReportOpen, ReportEarns
  <1>4. ReportsEarned'
    BY DEF ZooInv, ReportsEarned, Earned
  <1>5. ExitTells'
    BY DEF ZooInv, GateTypes, GateOrder, ExitTells, passed
  <1> QED
    BY <1>1, <1>2, <1>3, <1>4, <1>5 DEF ZooInv

LEMMA ZooStep ==
    ASSUME ZooInv, [Next]_zooVars
    PROVE  ZooInv'
  <1>1. CASE Research
    BY <1>1, ResearchStep
  <1>2. CASE HandOver
    BY <1>2, HandOverStep
  <1>3. CASE GateStep
    <2>1. panel > 0 /\ UNCHANGED strategyVars /\ GateNext
      BY <1>3 DEF GateStep
    <2>2. CASE \E entry \in Entry : register(entry) \/ registerTwice(entry)
      BY <2>1, <2>2, RegisterStep
    <2>3. CASE SpecHook
      BY <2>1, <2>3, HookStep
    <2>4. CASE ReferenceRaises \/ ReferenceRuns
      BY <2>1, <2>4, ReferenceStep
    <2>9. CASE BenchmarkRaises
      BY <2>1, <2>9, BenchmarkStep
    <2>5. CASE FoldSkipped \/ FoldRuns
      BY <2>1, <2>5, FoldStep
    <2>6. CASE WalkRaises \/ WalkEnds
      BY <2>1, <2>6, WalkEndStep
    <2>7. CASE Declare
      BY <2>1, <2>7, DeclareStep
    <2>8. CASE Judge
      BY <2>1, <2>8, JudgeStep
    <2> QED
      BY <2>1, <2>2, <2>3, <2>4, <2>5, <2>6, <2>7, <2>8, <2>9 DEF GateNext
  <1>4. CASE UNCHANGED zooVars
    <2>1. UNCHANGED gateVars /\ UNCHANGED strategyVars
      BY <1>4 DEF zooVars
    <2>2. PanelTypes'
      BY <2>1 DEF ZooInv, PanelTypes, gateVars, strategyVars
    <2> QED
      BY <2>1, <2>2, GateKept
  <1> QED
    BY <1>1, <1>2, <1>3, <1>4 DEF Next

(* The invariant holds throughout.                                          *)
THEOREM ZooInvariant == Spec => []ZooInv
  <1>1. Init => ZooInv
    BY ZooInit
  <1>2. ZooInv /\ [Next]_zooVars => ZooInv'
    BY ZooStep
  <1> QED
    BY <1>1, <1>2, PTL DEF Spec

(* An exit status of 0 of "oq-zoo gate" stands for evidence about each      *)
(* strategy, and 1 for a failure of one.                                    *)
THEOREM PassesAreEarned == Spec => []PassIsEarned
  <1>1. ZooInv => PassIsEarned
    BY DEF ZooInv, GateTypes, ReportsEarned, ExitTells, PassIsEarned
  <1> QED
    BY <1>1, ZooInvariant, PTL

(* Every walk of _run_walk_forward through any panel is honest, and so is   *)
(* one that expands.                                                        *)
THEOREM FoldsAreHonest == Spec => []FoldsHonest
  <1>1. ZooInv => FoldsHonest
    BY ConfigTypes, WalkIsHonest DEF ZooInv, PanelTypes, FoldsHonest
  <1> QED
    BY <1>1, ZooInvariant, PTL

----------------------------------------------------------------------------
(* The bars and their schedule. *)

(* A set of naturals with a bound has a last element, which Max chooses. *)
LEMMA BoundedMax ==
    ASSUME NEW T \in SUBSET Nat, T # {}, NEW n \in Nat, \A y \in T : y <= n
    PROVE  Max(T) \in T /\ \A y \in T : y <= Max(T)
  <1> DEFINE above == {k \in Nat : \A y \in T : y <= k}
  <1>1. PICK m \in above : \A k \in above : m <= k
    <2>1. above \in SUBSET Nat /\ n \in above
      OBVIOUS
    <2> HIDE DEF above
    <2> QED
      BY <2>1, LeastNatural
  <1>2. m \in T
    <2>1. SUFFICES ASSUME m \notin T PROVE FALSE
      OBVIOUS
    <2>2. \A y \in T : y < m
      BY <1>1, <2>1
    <2>3. m > 0
      <3>1. PICK y \in T : TRUE
        OBVIOUS
      <3> QED
        BY <1>1, <2>2, <3>1
    <2>4. m - 1 \in above
      BY <2>2, <2>3, <1>1
    <2> QED
      BY <1>1, <2>4
  <1>3. \A y \in T : m >= y
    BY <1>1
  <1> QED
    BY <1>2, <1>3 DEF Max

(* The bars so far: on days of the past, in their order, each with its      *)
(* prices.                                                                  *)
BarsInv ==
    /\ day \in Nat
    /\ index \in Seq(Nat)
    /\ prices \in Seq(PriceRow)
    /\ Len(prices) = Len(index)
    /\ \A i \in DOMAIN index : index[i] < day
    /\ \A i, j \in DOMAIN index : i < j => index[i] < index[j]

LEMMA BarsStep ==
    ASSUME BarsInv, [StrategiesNext]_strategyVars
    PROVE  BarsInv'
  <1>1. CASE TradingDay
    <2>1. PICK row \in PriceRow : prices' = Append(prices, row)
      BY <1>1 DEF TradingDay
    <2>2. index' = Append(index, day) /\ day' = day + 1
      BY <1>1 DEF TradingDay
    <2>3. /\ index' \in Seq(Nat) /\ prices' \in Seq(PriceRow)
          /\ Len(prices') = Len(index')
          /\ DOMAIN index' = 1..(Len(index) + 1) /\ DOMAIN index = 1..Len(index)
          /\ index'[Len(index) + 1] = day
          /\ \A i \in DOMAIN index : index'[i] = index[i]
      BY <2>1, <2>2 DEF BarsInv
    <2>4. \A i \in DOMAIN index' : i \in DOMAIN index \/ i = Len(index) + 1
      BY <2>3 DEF BarsInv
    <2>5. \A i \in DOMAIN index' : index'[i] < day'
      BY <2>2, <2>3, <2>4 DEF BarsInv
    <2>6. \A i, j \in DOMAIN index' : i < j => index'[i] < index'[j]
      <3> SUFFICES ASSUME NEW i \in DOMAIN index', NEW j \in DOMAIN index', i < j
                   PROVE  index'[i] < index'[j]
        OBVIOUS
      <3>1. i \in DOMAIN index /\ index'[i] = index[i] /\ index[i] < day
        BY <2>3, <2>4 DEF BarsInv
      <3>2. CASE j \in DOMAIN index
        BY <2>3, <3>1, <3>2 DEF BarsInv
      <3>3. CASE j = Len(index) + 1
        BY <2>3, <3>1, <3>3
      <3> QED
        BY <2>4, <3>2, <3>3
    <2> QED
      BY <2>2, <2>3, <2>5, <2>6 DEF BarsInv
  <1>2. CASE ClosedDay
    BY <1>2 DEF ClosedDay, BarsInv
  <1>3. CASE UNCHANGED strategyVars
    BY <1>3 DEF strategyVars, BarsInv
  <1> QED
    BY <1>1, <1>2, <1>3 DEF StrategiesNext

LEMMA BarsHold == Spec => []BarsInv
  <1>1. Init => BarsInv
    BY DEF Init, StrategiesInit, BarsInv
  <1>2. BarsInv /\ [Next]_zooVars => BarsInv'
    <2> SUFFICES ASSUME BarsInv, [Next]_zooVars PROVE BarsInv'
      OBVIOUS
    <2>1. CASE HandOver
      BY <2>1 DEF HandOver, BarsInv
    <2>2. CASE ~HandOver
      <3>1. [StrategiesNext]_strategyVars
        BY <2>2 DEF Next, Research, GateStep, zooVars
      <3> QED
        BY <3>1, BarsStep
    <2> QED
      BY <2>1, <2>2
  <1> QED
    BY <1>1, <1>2, PTL DEF Spec

Ascending(dates) ==
    /\ dates \in Seq(Nat)
    /\ \A i, j \in DOMAIN dates : i < j => dates[i] < dates[j]

(* The row a target snaps to is the last on or before it. *)
LEMMA SnapsBack ==
    ASSUME NEW dates, Ascending(dates), NEW t \in Int,
           NEW i \in DOMAIN dates, dates[i] <= t
    PROVE  LET m == Snapped(dates, t)
           IN  /\ m \in DOMAIN dates
               /\ dates[m] <= t
               /\ \A j \in DOMAIN dates : dates[j] <= t <=> j <= m
  <1> DEFINE T == {j \in DOMAIN dates : dates[j] <= t}
             m == Snapped(dates, t)
  <1>1. DOMAIN dates = 1..Len(dates) /\ Len(dates) \in Nat
        /\ \A j \in DOMAIN dates : dates[j] \in Nat
    BY DEF Ascending
  <1>2. m \in T /\ \A j \in T : j <= m
    <2>1. /\ T \in SUBSET Nat /\ T # {}
          /\ \A j \in T : j <= Len(dates)
      BY <1>1
    <2>2. m = Max(T)
      BY DEF Snapped
    <2> HIDE DEF T, m
    <2> QED
      BY <1>1, <2>1, <2>2, BoundedMax
  <1>3. ASSUME NEW j \in DOMAIN dates, j <= m
        PROVE  dates[j] <= t
    <2>1. j = m \/ j < m
      BY <1>1, <1>2, <1>3
    <2>2. dates[j] <= dates[m] /\ dates[m] <= t
      BY <1>1, <1>2, <2>1 DEF Ascending
    <2>3. dates[j] \in Int /\ dates[m] \in Int
      BY <1>1, <1>2
    <2> QED
      BY <2>2, <2>3
  <1>4. \A j \in DOMAIN dates : dates[j] <= t <=> j <= m
    BY <1>2, <1>3
  <1> QED
    BY <1>2, <1>4

(* Whatever the targets are: a period with bars has one rebalance, on the   *)
(* last of them, and every rebalance is in a period.                        *)
LEMMA OncePerPeriod ==
    ASSUME NEW dates, Ascending(dates), dates # <<>>,
           NEW ends \in SUBSET (dates[1]..dates[Len(dates)])
    PROVE  LET rebal   == {Snapped(dates, t) : t \in ends}
               Bars(t) == {i \in DOMAIN dates :
                              dates[i] <= t /\ ~\E u \in ends : dates[i] <= u /\ u < t}
           IN  /\ \A t \in ends : Bars(t) # {} => Bars(t) \intersect rebal = {Max(Bars(t))}
               /\ \A r \in rebal : \E t \in ends : r \in Bars(t)
  <1> DEFINE rebal   == {Snapped(dates, t) : t \in ends}
             Bars(t) == {i \in DOMAIN dates :
                            dates[i] <= t /\ ~\E u \in ends : dates[i] <= u /\ u < t}
             m(t) == Snapped(dates, t)
  <1>1. /\ DOMAIN dates = 1..Len(dates) /\ Len(dates) \in Nat /\ Len(dates) >= 1
        /\ \A j \in DOMAIN dates : dates[j] \in Nat
    BY DEF Ascending
  <1>2. \A t \in ends : t \in Int /\ dates[1] <= t
    BY <1>1
  <1>3. ASSUME NEW t \in ends
        PROVE  /\ m(t) \in DOMAIN dates
               /\ dates[m(t)] <= t
               /\ \A j \in DOMAIN dates : dates[j] <= t <=> j <= m(t)
    BY <1>1, <1>2, SnapsBack
  <1> HIDE DEF m
  <1>4. ASSUME NEW t \in ends, NEW b \in Bars(t)
        PROVE  Bars(t) \intersect rebal = {Max(Bars(t))}
    <2>1. m(t) \in Bars(t)
      <3>1. b \in DOMAIN dates /\ dates[b] <= t /\ b <= m(t)
        BY <1>3, <1>4
      <3>2. dates[b] <= dates[m(t)]
        BY <1>1, <1>3, <3>1 DEF Ascending
      <3>3. ASSUME NEW u \in ends, dates[m(t)] <= u, u < t
            PROVE  FALSE
        <4>1. dates[b] <= u
          BY <1>1, <1>2, <1>3, <3>1, <3>2, <3>3
        <4> QED
          BY <1>4, <3>3, <4>1
      <3> QED
        BY <1>3, <3>3
    <2>2. \A i \in Bars(t) : i <= m(t)
      BY <1>3
    <2>3. Max(Bars(t)) = m(t)
      <3> DEFINE T == Bars(t)
      <3>1. /\ T \in SUBSET Nat /\ T # {} /\ m(t) \in T /\ m(t) \in Nat
            /\ \A i \in T : i <= m(t)
        BY <1>1, <2>1, <2>2
      <3> HIDE DEF T
      <3>2. Max(T) \in T /\ \A i \in T : i <= Max(T)
        BY <3>1, BoundedMax
      <3>3. Max(T) = m(t)
        <4> DEFINE x == Max(T)
                   y == m(t)
        <4>1. x \in Nat /\ y \in Nat /\ x <= y /\ y <= x
          BY <3>1, <3>2
        <4> HIDE DEF x, y
        <4>2. x = y
          BY <4>1
        <4> QED
          BY <4>2 DEF x, y
      <3> QED
        BY <3>3 DEF T
    <2>4. m(t) \in rebal
      BY DEF m
    <2>5. ASSUME NEW r \in Bars(t), r \in rebal
          PROVE  r = m(t)
      <3>1. PICK u \in ends : r = m(u)
        BY <2>5 DEF m
      <3>2. SUFFICES ASSUME r # m(t) PROVE FALSE
        OBVIOUS
      <3>3. r < m(t) /\ m(t) \in DOMAIN dates /\ r \in DOMAIN dates
        BY <1>1, <1>3, <2>2, <2>5, <3>2
      <3>4. ~(dates[m(t)] <= u)
        BY <1>1, <1>3, <3>1, <3>3
      <3>5. u < t
        BY <1>1, <1>2, <1>3, <3>3, <3>4
      <3>6. dates[r] <= u
        BY <1>3, <3>1
      <3> QED
        BY <2>5, <3>5, <3>6
    <2> QED
      BY <2>1, <2>3, <2>4, <2>5
  <1>5. ASSUME NEW r \in rebal
        PROVE  \E t \in ends : r \in Bars(t)
    <2>1. PICK u \in ends : r = m(u)
      BY <1>5 DEF m
    <2>2. r \in DOMAIN dates /\ dates[r] <= u /\ dates[r] \in Nat
      BY <1>1, <1>3, <2>1
    <2> DEFINE later == {v \in ends : dates[r] <= v}
    <2>3. PICK t \in later : \A v \in later : t <= v
      <3>1. u \in later
        BY <2>2
      <3>2. \A v \in later : v \in Nat
        BY <1>2, <2>2
      <3>3. later \in SUBSET Nat /\ later # {}
        BY <3>1, <3>2
      <3> HIDE DEF later
      <3> QED
        BY <3>3, LeastNatural
    <2>4. ~\E v \in ends : dates[r] <= v /\ v < t
      BY <1>2, <2>3
    <2> QED
      BY <2>2, <2>3, <2>4
  <1> QED
    BY <1>4, <1>5

(* Every period with a bar that is over has its rebalance, on its last bar, *)
(* and there is no other, whatever days the calendar closes.                *)
THEOREM RebalancesOnce == Spec => []RebalancedOncePerPeriod
  <1>1. BarsInv => RebalancedOncePerPeriod
    <2> SUFFICES ASSUME BarsInv, index # <<>>, NEW schedule \in Schedule \ {"daily"}
                 PROVE  LET rebal   == rebalance_dates(index, schedule)
                            ends    == Targets(index, schedule)
                            Bars(t) == {i \in DOMAIN index :
                                           index[i] <= t /\ ~\E u \in ends : index[i] <= u /\ u < t}
                        IN  /\ \A t \in ends : Bars(t) # {} =>
                                  Bars(t) \intersect rebal = {Max(Bars(t))}
                            /\ \A r \in rebal : \E t \in ends : r \in Bars(t)
      BY DEF RebalancedOncePerPeriod
    <2>1. Ascending(index)
      BY DEF BarsInv, Ascending
    <2>2. Targets(index, schedule) \in SUBSET (index[1]..index[Len(index)])
      BY DEF Targets
    <2>3. rebalance_dates(index, schedule) =
              {Snapped(index, t) : t \in Targets(index, schedule)}
      BY DEF rebalance_dates
    <2> DEFINE ends == Targets(index, schedule)
    <2>4. /\ ends \in SUBSET (index[1]..index[Len(index)])
          /\ rebalance_dates(index, schedule) = {Snapped(index, t) : t \in ends}
      BY <2>2, <2>3
    <2> HIDE DEF ends
    <2> DEFINE rebal   == {Snapped(index, t) : t \in ends}
               Bars(t) == {i \in DOMAIN index :
                              index[i] <= t /\ ~\E u \in ends : index[i] <= u /\ u < t}
    <2>5. /\ \A t \in ends : Bars(t) # {} => Bars(t) \intersect rebal = {Max(Bars(t))}
          /\ \A r \in rebal : \E t \in ends : r \in Bars(t)
      BY <2>1, <2>4, OncePerPeriod
    <2> QED
      BY <2>4, <2>5 DEF ends
  <1> QED
    BY <1>1, BarsHold, PTL

(* A bar more, later than all: earlier targets snap as before. *)
LEMMA SnapsAlike ==
    ASSUME NEW dates, Ascending(dates), NEW d \in Nat,
           \A j \in DOMAIN dates : dates[j] < d,
           NEW t \in Int, t < d
    PROVE  Snapped(Append(dates, d), t) = Snapped(dates, t)
  <1>1. /\ DOMAIN dates = 1..Len(dates) /\ Len(dates) \in Nat
        /\ DOMAIN Append(dates, d) = 1..(Len(dates) + 1)
        /\ Append(dates, d)[Len(dates) + 1] = d
        /\ \A j \in DOMAIN dates : Append(dates, d)[j] = dates[j]
    BY DEF Ascending
  <1>2. {j \in DOMAIN Append(dates, d) : Append(dates, d)[j] <= t}
           = {j \in DOMAIN dates : dates[j] <= t}
    BY <1>1
  <1> QED
    BY <1>2 DEF Snapped

(* The rebalances up to a row do not change when a bar comes in, but for    *)
(* the last row's, when a period ends between it and the new bar.           *)
LEMMA RebalancesStay ==
    ASSUME NEW dates, Ascending(dates), dates # <<>>, NEW d \in Nat,
           \A j \in DOMAIN dates : dates[j] < d,
           NEW schedule \in Schedule, NEW i \in DOMAIN dates,
           \/ i < Len(dates)
           \/ schedule = "daily"
           \/ ~\E t \in (dates[Len(dates)] + 1)..(d - 1) : IsTarget(schedule, t)
    PROVE  {r \in rebalance_dates(Append(dates, d), schedule) : r <= i}
              = {r \in rebalance_dates(dates, schedule) : r <= i}
  <1> DEFINE more == Append(dates, d)
             n == Len(dates)
  <1>1. /\ DOMAIN dates = 1..n /\ n \in Nat \ {0} /\ DOMAIN more = 1..(n + 1)
        /\ Len(more) = n + 1
        /\ more[n + 1] = d
        /\ \A j \in DOMAIN dates : more[j] = dates[j] /\ dates[j] \in Nat /\ dates[j] < d
    BY DEF Ascending
  <1>2. Ascending(more)
    <2>1. more \in Seq(Nat)
      BY DEF Ascending
    <2>2. ASSUME NEW j \in DOMAIN more, NEW k \in DOMAIN more, j < k
          PROVE  more[j] < more[k]
      <3>1. j \in DOMAIN dates
        BY <1>1, <2>2
      <3>2. CASE k \in DOMAIN dates
        BY <1>1, <2>2, <3>1, <3>2 DEF Ascending
      <3>3. CASE k = n + 1
        BY <1>1, <3>1, <3>3
      <3> QED
        BY <1>1, <3>2, <3>3
    <2> QED
      BY <2>1, <2>2 DEF Ascending
  <1> HIDE DEF more, n
  <1>3. CASE schedule = "daily"
    <2>1. rebalance_dates(more, schedule) = DOMAIN more
      BY <1>3 DEF rebalance_dates
    <2>2. rebalance_dates(dates, schedule) = DOMAIN dates
      BY <1>3 DEF rebalance_dates
    <2>3. \A r : r \in DOMAIN more /\ r <= i <=> r \in DOMAIN dates /\ r <= i
      BY <1>1
    <2> QED
      BY <2>1, <2>2, <2>3 DEF more
  <1>4. CASE schedule # "daily"
    <2>1. rebalance_dates(more, schedule) = {Snapped(more, t) : t \in Targets(more, schedule)}
      BY <1>4 DEF rebalance_dates
    <2>2. rebalance_dates(dates, schedule) = {Snapped(dates, t) : t \in Targets(dates, schedule)}
      BY <1>4 DEF rebalance_dates
    <2>3. /\ Targets(dates, schedule) = {t \in dates[1]..dates[n] : IsTarget(schedule, t)}
          /\ Targets(more, schedule) = {t \in dates[1]..d : IsTarget(schedule, t)}
      BY <1>1 DEF Targets, n
    <2>4. dates[1] \in Nat /\ dates[n] \in Nat /\ dates[n] < d
      BY <1>1
    <2>5. ASSUME NEW t \in Targets(dates, schedule)
          PROVE  t \in Targets(more, schedule) /\ Snapped(more, t) = Snapped(dates, t)
      <3>1. t \in Int /\ t < d /\ t \in Targets(more, schedule)
        BY <2>3, <2>4
      <3> QED
        BY <1>1, <3>1, SnapsAlike DEF more
    <2>6. ASSUME NEW t \in Targets(more, schedule), Snapped(more, t) <= i
          PROVE  t \in Targets(dates, schedule)
      <3>1. t \in Int /\ dates[1] <= t /\ t <= d /\ IsTarget(schedule, t)
        BY <2>3, <2>4
      <3>2. SUFFICES ASSUME t > dates[n] PROVE FALSE
        BY <2>3, <2>4, <3>1
      <3>3. 1 \in DOMAIN more /\ more[1] <= t /\ n \in DOMAIN more /\ more[n] <= t
        BY <1>1, <2>4, <3>1, <3>2
      <3>4. /\ \A j \in DOMAIN more : more[j] <= t <=> j <= Snapped(more, t)
            /\ Snapped(more, t) \in DOMAIN more
        BY <1>2, <3>1, <3>3, SnapsBack
      <3>5. n <= Snapped(more, t)
        BY <3>3, <3>4
      <3>6. i = n
        BY <1>1, <2>6, <3>4, <3>5
      <3>7. Snapped(more, t) = n
        BY <1>1, <2>6, <3>4, <3>5, <3>6
      <3>8. ~(d <= t)
        BY <1>1, <3>4, <3>7
      <3>9. t \in (dates[n] + 1)..(d - 1)
        BY <2>4, <3>1, <3>2, <3>8
      <3> QED
        BY <1>1, <1>4, <3>1, <3>6, <3>9 DEF n
    <2>7. ASSUME NEW r
          PROVE  r \in rebalance_dates(more, schedule) /\ r <= i
                   <=> r \in rebalance_dates(dates, schedule) /\ r <= i
      BY <2>1, <2>2, <2>5, <2>6
    <2> QED
      BY <2>7 DEF more
  <1> QED
    BY <1>3, <1>4

(* What a rebalance picks depends on the rows up to it.                     *)
LEMMA SelectedAlike ==
    ASSUME NEW V, NEW rows \in Seq(V), NEW row, NEW k \in 1..Len(rows), NEW winners
    PROVE  Selected(Append(rows, row), k, winners) = Selected(rows, k, winners)
  <1> DEFINE more == Append(rows, row)
  <1>1. CASE k <= lookback
    BY <1>1 DEF Selected
  <1>2. CASE ~(k <= lookback)
    <2>1. lookback \in Nat /\ k - lookback \in 1..Len(rows)
      BY <1>2, StrategiesAssumption
    <2>2. more[k] = rows[k] /\ more[k - lookback] = rows[k - lookback]
      BY <2>1
    <2> HIDE DEF more
    <2>3. \A a, b : Outran(more, k, a, b) <=> Outran(rows, k, a, b)
      BY <2>2 DEF Outran
    <2>4. \A a, b : Precedes(more, k, winners, a, b) <=> Precedes(rows, k, winners, a, b)
      BY <2>3 DEF Precedes
    <2>5. Selected(more, k, winners) = Selected(rows, k, winners)
      BY <1>2, <2>4 DEF Selected
    <2> QED
      BY <2>5 DEF more
  <1> QED
    BY <1>1, <1>2

LEMMA HeldAlike ==
    ASSUME NEW dates, Ascending(dates), dates # <<>>, NEW d \in Nat,
           \A j \in DOMAIN dates : dates[j] < d,
           NEW V, NEW rows \in Seq(V), Len(rows) = Len(dates), NEW row,
           NEW schedule \in Schedule, NEW winners, NEW i \in DOMAIN dates,
           \/ i < Len(dates)
           \/ schedule = "daily"
           \/ ~\E t \in (dates[Len(dates)] + 1)..(d - 1) : IsTarget(schedule, t)
    PROVE  Held(Append(dates, d), Append(rows, row), schedule, winners)[i]
              = Held(dates, rows, schedule, winners)[i]
  <1> DEFINE past == {r \in rebalance_dates(dates, schedule) : r <= i}
             past2 == {r \in rebalance_dates(Append(dates, d), schedule) : r <= i}
  <1>1. past2 = past
    BY RebalancesStay
  <1>2. i \in DOMAIN Append(dates, d)
    BY DEF Ascending
  <1>3. Held(dates, rows, schedule, winners)[i]
           = IF past = {} THEN {} ELSE Selected(rows, Max(past), winners)
    BY DEF Held
  <1>4. Held(Append(dates, d), Append(rows, row), schedule, winners)[i]
           = IF past2 = {} THEN {} ELSE Selected(Append(rows, row), Max(past2), winners)
    BY <1>2 DEF Held
  <1>5. past \subseteq DOMAIN dates
    <2>1. CASE schedule = "daily"
      BY <2>1 DEF rebalance_dates
    <2>2. CASE schedule # "daily"
      <3>1. rebalance_dates(dates, schedule) = {Snapped(dates, t) : t \in Targets(dates, schedule)}
        BY <2>2 DEF rebalance_dates
      <3>2. ASSUME NEW t \in Targets(dates, schedule)
            PROVE  Snapped(dates, t) \in DOMAIN dates
        <4>1. 1 \in DOMAIN dates /\ Len(dates) \in DOMAIN dates
              /\ \A j \in DOMAIN dates : dates[j] \in Nat
          BY DEF Ascending
        <4>2. t \in Int /\ dates[1] <= t
          BY <4>1 DEF Targets
        <4> QED
          BY <4>1, <4>2, SnapsBack
      <3> QED
        BY <3>1, <3>2
    <2> QED
      BY <2>1, <2>2
  <1>6. CASE past # {}
    <2>1. Max(past) \in past
      <3>1. /\ DOMAIN dates = 1..Len(dates) /\ Len(dates) \in Nat
        BY DEF Ascending
      <3>2. past \in SUBSET Nat /\ \A y \in past : y <= Len(dates)
        BY <1>5, <3>1
      <3> HIDE DEF past
      <3> QED
        BY <1>6, <3>1, <3>2, BoundedMax
    <2>2. Max(past) \in 1..Len(rows)
      BY <1>5, <2>1 DEF Ascending
    <2> HIDE DEF past
    <2>3. Selected(Append(rows, row), Max(past), winners) = Selected(rows, Max(past), winners)
      BY <2>2, SelectedAlike
    <2> QED
      BY <1>1, <1>3, <1>4, <1>6, <2>3
  <1> QED
    BY <1>1, <1>3, <1>4, <1>6

(* Whatever bars come in, a signal computed over them says of the earlier   *)
(* rows what it said before: nothing looks ahead in the two ranked signals. *)
THEOREM SignalsSettle == Spec => SignalsSettled
  <1>1. ASSUME BarsInv, [Next]_zooVars, index # <<>>, Len(index') > Len(index),
               NEW schedule \in Schedule, NEW winners,
               NEW i \in DOMAIN index, i < Len(index) \/ ~ClosedLate(schedule)
        PROVE  Held(index', prices', schedule, winners)[i]
                  = Held(index, prices, schedule, winners)[i]
    <2>1. index' # index
      BY <1>1 DEF BarsInv
    <2>2. ~HandOver
      <3>1. SUFFICES ASSUME index' = <<>> PROVE FALSE
        BY DEF HandOver
      <3>2. Len(index') = 0 /\ Len(index) \in Nat
        BY <1>1, <3>1 DEF BarsInv
      <3> QED
        BY <1>1, <3>2
    <2>3. TradingDay
      BY <1>1, <2>1, <2>2
      DEF Next, Research, StrategiesNext, ClosedDay, GateStep, zooVars, strategyVars
    <2>4. PICK row \in PriceRow : prices' = Append(prices, row)
      BY <2>3 DEF TradingDay
    <2>5. index' = Append(index, day)
      BY <2>3 DEF TradingDay
    <2>6. /\ Ascending(index) /\ day \in Nat /\ prices \in Seq(PriceRow)
          /\ Len(prices) = Len(index)
          /\ \A j \in DOMAIN index : index[j] < day
      BY <1>1 DEF BarsInv, Ascending
    <2>7. \/ i < Len(index)
          \/ schedule = "daily"
          \/ ~\E t \in (index[Len(index)] + 1)..(day - 1) : IsTarget(schedule, t)
      <3>1. index'[Len(index')] = day
        BY <2>5, <1>1 DEF BarsInv
      <3> QED
        BY <1>1, <3>1 DEF ClosedLate
    <2>8. Held(Append(index, day), Append(prices, row), schedule, winners)[i]
             = Held(index, prices, schedule, winners)[i]
      BY ONLY <1>1, <2>6, <2>7, HeldAlike
    <2> QED
      BY <2>4, <2>5, <2>8
  <1>2. BarsInv /\ [Next]_zooVars =>
          [(index # <<>> /\ Len(index') > Len(index)) =>
              \A schedule \in Schedule :
                  /\ Settles(schedule, momentum_signal(index, prices, schedule),
                                       momentum_signal(index', prices', schedule))
                  /\ Settles(schedule, mean_reversion_signal(index, prices, schedule),
                                       mean_reversion_signal(index', prices', schedule))
          ]_strategyVars
    BY <1>1 DEF Settles, momentum_signal, mean_reversion_signal
  <1> QED
    BY <1>2, BarsHold, PTL DEF Spec, SignalsSettled

----------------------------------------------------------------------------
(* The loops of the calendar. *)

(* What sessions yields. *)
LEMMA Yielding ==
    ASSUME NEW calendar, NEW start \in Nat
    PROVE  \E f \in [Nat -> Seq(Nat)] :
              /\ f[0] = <<>>
              /\ \A n \in Nat : f[n + 1] = IF is_session(calendar, start + n)
                                           THEN Append(f[n], start + n) ELSE f[n]
              /\ \A end \in Int : end >= start => sessions(calendar, start, end) = f[end - start + 1]
              /\ \A end \in Int : end < start => sessions(calendar, start, end) = <<>>
  <1> DEFINE round == [n \in Nat |-> [s \in Seq(Nat) |->
                          IF is_session(calendar, start + n) THEN Append(s, start + n) ELSE s]]
             IsYielded(y) == y = [n \in Nat |->
                   IF n = 0 THEN <<>>
                   ELSE IF is_session(calendar, start + n - 1) THEN Append(y[n - 1], start + n - 1)
                   ELSE y[n - 1]]
             yielded == CHOOSE y : IsYielded(y)
  <1>1. round \in [Nat -> [Seq(Nat) -> Seq(Nat)]]
    OBVIOUS
  <1>2. <<>> \in Seq(Nat)
    OBVIOUS
  <1>3. PICK f \in [Nat -> Seq(Nat)] :
              /\ f[0] = <<>>
              /\ \A k \in Nat : f[k + 1] = round[k][f[k]]
    <2> DEFINE V == Seq(Nat)
               first == <<>>
    <2>1. round \in [Nat -> [V -> V]]
      BY <1>1
    <2>2. first \in V
      BY <1>2
    <2> HIDE DEF round, V, first, IsYielded
    <2>3. PICK f : IsLoop(f, V, first, round)
      BY <2>1, <2>2, UnrollExists
    <2> QED
      BY <2>3 DEF V, first, IsLoop
  <1>4. \A k \in Nat : f[k + 1] = IF is_session(calendar, start + k)
                                  THEN Append(f[k], start + k) ELSE f[k]
    BY <1>3
  <1>5. IsYielded(f)
    <2>1. ASSUME NEW n \in Nat
          PROVE f[n] = IF n = 0 THEN <<>>
                   ELSE IF is_session(calendar, start + n - 1) THEN Append(f[n - 1], start + n - 1)
                   ELSE f[n - 1]
      <3>1. CASE n = 0
        BY <1>3, <3>1
      <3>2. CASE n # 0
        <4>1. n - 1 \in Nat /\ (n - 1) + 1 = n /\ start + (n - 1) = start + n - 1
          BY <3>2
        <4> QED
          BY <1>4, <3>2, <4>1
      <3> QED
        BY <3>1, <3>2
    <2> QED
      BY <2>1
  <1>6. IsYielded(yielded)
    BY <1>5
  <1> HIDE DEF yielded
  <1>7. \A n \in Nat : yielded[n] = f[n]
    <2> DEFINE T == {n \in Nat : yielded[n] # f[n]}
    <2>1. SUFFICES ASSUME T # {} PROVE FALSE
      OBVIOUS
    <2>2. PICK n \in T : \A j \in T : n <= j
      BY <2>1, LeastNatural
    <2>3. yielded[n] = IF n = 0 THEN <<>>
                   ELSE IF is_session(calendar, start + n - 1)
                        THEN Append(yielded[n - 1], start + n - 1)
                   ELSE yielded[n - 1]
      BY <1>6, <2>2
    <2>4. f[n] = IF n = 0 THEN <<>>
                   ELSE IF is_session(calendar, start + n - 1) THEN Append(f[n - 1], start + n - 1)
                   ELSE f[n - 1]
      BY <1>5, <2>2
    <2>5. n # 0
      BY <2>2, <2>3, <2>4
    <2>6. n - 1 \in Nat /\ n - 1 \notin T
      BY <2>2, <2>5
    <2>7. yielded[n - 1] = f[n - 1]
      BY <2>6
    <2>8. yielded[n] = f[n]
      <3> DEFINE y == yielded[n - 1]
                 d == start + n - 1
      <3>1. f[n - 1] = y
        BY <2>7
      <3>2. CASE is_session(calendar, d)
        <4>1. yielded[n] = Append(y, d)
          BY <2>3, <2>5, <3>2
        <4>2. f[n] = Append(f[n - 1], d)
          BY <2>4, <2>5, <3>2
        <4> HIDE DEF y, d
        <4> QED
          BY <3>1, <4>1, <4>2
      <3>3. CASE ~is_session(calendar, d)
        BY <2>3, <2>4, <2>5, <3>1, <3>3
      <3> QED
        BY <3>2, <3>3
    <2> QED
      BY <2>2, <2>8
  <1>8. \A end \in Int : sessions(calendar, start, end)
                            = IF end < start THEN <<>> ELSE yielded[end - start + 1]
    BY DEF sessions, yielded
  <1>9. \A end \in Int : end >= start => sessions(calendar, start, end) = f[end - start + 1]
    <2> SUFFICES ASSUME NEW end \in Int, end >= start
                 PROVE  sessions(calendar, start, end) = f[end - start + 1]
      OBVIOUS
    <2>1. end - start + 1 \in Nat /\ ~(end < start)
      OBVIOUS
    <2> QED
      BY <1>7, <1>8, <2>1
  <1>10. \A end \in Int : end < start => sessions(calendar, start, end) = <<>>
    BY <1>8
  <1> QED
    BY <1>3, <1>4, <1>9, <1>10

(* The bars of the regular sessions, bar by bar. *)
LEMMA Keeping ==
    ASSUME NEW calendar, NEW dates
    PROVE  \E f :
              /\ f[0] = <<>>
              /\ \A n \in Nat : f[n + 1] = IF is_market_open(calendar, dates[n + 1], NSE_OPEN)
                                           THEN Append(f[n], dates[n + 1]) ELSE f[n]
              /\ Len(dates) \in Nat => Regular(calendar, dates) = f[Len(dates)]
  <1> DEFINE Day == {dates[n] : n \in Nat}
             round == [n \in Nat |-> [s \in Seq(Day) |->
                          IF is_market_open(calendar, dates[n + 1], NSE_OPEN)
                          THEN Append(s, dates[n + 1]) ELSE s]]
             IsKept(y) == y = [n \in Nat |->
                   IF n = 0 THEN <<>>
                   ELSE IF is_market_open(calendar, dates[n], NSE_OPEN) THEN Append(y[n - 1], dates[n])
                   ELSE y[n - 1]]
             kept == CHOOSE y : IsKept(y)
  <1>1. round \in [Nat -> [Seq(Day) -> Seq(Day)]]
    <2>1. \A n \in Nat : dates[n + 1] \in Day
      OBVIOUS
    <2> HIDE DEF Day
    <2> QED
      BY <2>1
  <1>2. <<>> \in Seq(Day)
    OBVIOUS
  <1>3. PICK f \in [Nat -> Seq(Day)] :
              /\ f[0] = <<>>
              /\ \A k \in Nat : f[k + 1] = round[k][f[k]]
    <2> DEFINE V == Seq(Day)
               first == <<>>
    <2>1. round \in [Nat -> [V -> V]]
      BY <1>1
    <2>2. first \in V
      BY <1>2
    <2> HIDE DEF round, V, first, IsKept
    <2>3. PICK f : IsLoop(f, V, first, round)
      BY <2>1, <2>2, UnrollExists
    <2> QED
      BY <2>3 DEF V, first, IsLoop
  <1>4. \A k \in Nat : f[k + 1] = IF is_market_open(calendar, dates[k + 1], NSE_OPEN)
                                  THEN Append(f[k], dates[k + 1]) ELSE f[k]
    BY <1>3
  <1>5. IsKept(f)
    <2>1. ASSUME NEW n \in Nat
          PROVE f[n] = IF n = 0 THEN <<>>
                   ELSE IF is_market_open(calendar, dates[n], NSE_OPEN) THEN Append(f[n - 1], dates[n])
                   ELSE f[n - 1]
      <3>1. CASE n = 0
        BY <1>3, <3>1
      <3>2. CASE n # 0
        <4>1. n - 1 \in Nat /\ (n - 1) + 1 = n
          BY <3>2
        <4> QED
          BY <1>4, <3>2, <4>1
      <3> QED
        BY <3>1, <3>2
    <2> QED
      BY <2>1
  <1>6. IsKept(kept)
    BY <1>5
  <1> HIDE DEF kept
  <1>7. \A n \in Nat : kept[n] = f[n]
    <2> DEFINE T == {n \in Nat : kept[n] # f[n]}
    <2>1. SUFFICES ASSUME T # {} PROVE FALSE
      OBVIOUS
    <2>2. PICK n \in T : \A j \in T : n <= j
      BY <2>1, LeastNatural
    <2>3. kept[n] = IF n = 0 THEN <<>>
                    ELSE IF is_market_open(calendar, dates[n], NSE_OPEN)
                         THEN Append(kept[n - 1], dates[n])
                    ELSE kept[n - 1]
      BY <1>6, <2>2
    <2>4. f[n] = IF n = 0 THEN <<>>
                 ELSE IF is_market_open(calendar, dates[n], NSE_OPEN) THEN Append(f[n - 1], dates[n])
                 ELSE f[n - 1]
      BY <1>5, <2>2
    <2>5. n # 0
      BY <2>2, <2>3, <2>4
    <2>6. n - 1 \in Nat /\ n - 1 \notin T
      BY <2>2, <2>5
    <2>7. kept[n - 1] = f[n - 1]
      BY <2>6
    <2>8. kept[n] = f[n]
      <3> DEFINE y == kept[n - 1]
                 d == dates[n]
      <3>1. f[n - 1] = y
        BY <2>7
      <3>2. CASE is_market_open(calendar, d, NSE_OPEN)
        <4>1. kept[n] = Append(y, d)
          BY <2>3, <2>5, <3>2
        <4>2. f[n] = Append(f[n - 1], d)
          BY <2>4, <2>5, <3>2
        <4> HIDE DEF y, d
        <4> QED
          BY <3>1, <4>1, <4>2
      <3>3. CASE ~is_market_open(calendar, d, NSE_OPEN)
        BY <2>3, <2>4, <2>5, <3>1, <3>3
      <3> QED
        BY <3>2, <3>3
    <2> QED
      BY <2>2, <2>8
  <1>8. Regular(calendar, dates) = kept[Len(dates)]
    BY DEF Regular, kept
  <1>9. Len(dates) \in Nat => Regular(calendar, dates) = f[Len(dates)]
    BY <1>7, <1>8
  <1> QED
    BY <1>3, <1>4, <1>9

(* A session is open when it opens. *)
LEMMA Opens == \A calendar, d : is_market_open(calendar, d, NSE_OPEN) <=> is_session(calendar, d)
  BY DEF is_market_open, NSE_OPEN, NSE_CLOSE

(* A bar more. *)
LEMMA RegularGrows ==
    ASSUME NEW calendar, NEW dates \in Seq(Nat), NEW d \in Nat
    PROVE  /\ Regular(calendar, <<>>) = <<>>
           /\ Regular(calendar, Append(dates, d))
                 = IF is_session(calendar, d) THEN Append(Regular(calendar, dates), d)
                   ELSE Regular(calendar, dates)
  <1>1. Regular(calendar, <<>>) = <<>>
    <2> DEFINE none == <<>>
    <2>1. Len(none) = 0
      OBVIOUS
    <2> HIDE DEF none
    <2>2. PICK f : /\ f[0] = <<>>
                   /\ \A n \in Nat : f[n + 1] = IF is_market_open(calendar, none[n + 1], NSE_OPEN)
                                           THEN Append(f[n], none[n + 1]) ELSE f[n]
                   /\ Len(none) \in Nat => Regular(calendar, none) = f[Len(none)]
      BY Keeping
    <2>3. Regular(calendar, none) = f[0]
      BY <2>1, <2>2
    <2> QED
      BY <2>2, <2>3 DEF none
  <1> DEFINE longer == Append(dates, d)
  <1>2. /\ Len(dates) \in Nat /\ Len(longer) = Len(dates) + 1
        /\ \A n \in Nat : n < Len(dates) => longer[n + 1] = dates[n + 1]
        /\ longer[Len(dates) + 1] = d
    OBVIOUS
  <1> HIDE DEF longer
  <1>3. PICK f : /\ f[0] = <<>>
                 /\ \A n \in Nat : f[n + 1] = IF is_market_open(calendar, dates[n + 1], NSE_OPEN)
                                           THEN Append(f[n], dates[n + 1]) ELSE f[n]
                 /\ Len(dates) \in Nat => Regular(calendar, dates) = f[Len(dates)]
    BY Keeping
  <1>4. PICK g : /\ g[0] = <<>>
                 /\ \A n \in Nat : g[n + 1] = IF is_market_open(calendar, longer[n + 1], NSE_OPEN)
                                           THEN Append(g[n], longer[n + 1]) ELSE g[n]
                 /\ Len(longer) \in Nat => Regular(calendar, longer) = g[Len(longer)]
    BY Keeping
  <1>5. \A n \in Nat : n <= Len(dates) => g[n] = f[n]
    <2> DEFINE T == {n \in Nat : n <= Len(dates) /\ g[n] # f[n]}
    <2>1. SUFFICES ASSUME T # {} PROVE FALSE
      OBVIOUS
    <2>2. PICK n \in T : \A j \in T : n <= j
      BY <2>1, LeastNatural
    <2>3. n # 0
      BY <2>2, <1>3, <1>4
    <2> DEFINE m == n - 1
    <2>4. m \in Nat /\ m + 1 = n /\ m < Len(dates) /\ m \notin T
      <3>1. n \in Nat /\ n <= Len(dates) /\ Len(dates) \in Nat
        BY <2>2, <1>2
      <3>2. m \in Nat /\ m + 1 = n /\ m < Len(dates) /\ m < n
        BY <2>3, <3>1
      <3> QED
        BY <2>2, <3>1, <3>2
    <2> HIDE DEF m
    <2>5. g[m] = f[m] /\ longer[m + 1] = dates[m + 1]
      BY <2>4, <1>2
    <2>6. g[m + 1] = f[m + 1]
      <3>1. CASE is_market_open(calendar, dates[m + 1], NSE_OPEN)
        <4>1. g[m + 1] = Append(g[m], longer[m + 1])
          BY <1>4, <2>4, <2>5, <3>1
        <4>2. f[m + 1] = Append(f[m], dates[m + 1])
          BY <1>3, <2>4, <3>1
        <4> QED
          BY <4>1, <4>2, <2>5
      <3>2. CASE ~is_market_open(calendar, dates[m + 1], NSE_OPEN)
        <4>1. g[m + 1] = g[m]
          BY <1>4, <2>4, <2>5, <3>2
        <4>2. f[m + 1] = f[m]
          BY <1>3, <2>4, <3>2
        <4> QED
          BY <4>1, <4>2, <2>5
      <3> QED
        BY <3>1, <3>2
    <2> QED
      BY <2>2, <2>4, <2>6
  <1>6. Regular(calendar, longer) = g[Len(dates) + 1]
    BY <1>2, <1>4
  <1>7. Regular(calendar, dates) = g[Len(dates)]
    <2>1. Len(dates) \in Nat /\ Len(dates) <= Len(dates)
      BY <1>2
    <2> QED
      BY <2>1, <1>3, <1>5
  <1>8. CASE is_session(calendar, d)
    <2>1. g[Len(dates) + 1] = Append(g[Len(dates)], longer[Len(dates) + 1])
      BY <1>2, <1>4, <1>8, Opens
    <2> QED
      BY <1>1, <1>2, <1>6, <1>7, <1>8, <2>1 DEF longer
  <1>9. CASE ~is_session(calendar, d)
    <2>1. g[Len(dates) + 1] = g[Len(dates)]
      BY <1>2, <1>4, <1>9, Opens
    <2> QED
      BY <1>1, <1>6, <1>7, <1>9, <2>1 DEF longer
  <1> QED
    BY <1>8, <1>9

(* R lists, in order, the sessions of the days from one up to another. *)
Lists(calendar, R, from, to) ==
    /\ R \in Seq(Nat)
    /\ \A i \in DOMAIN R : from <= R[i] /\ R[i] < to /\ is_session(calendar, R[i])
    /\ \A i, j \in DOMAIN R : i < j => R[i] < R[j]
    /\ \A d \in Nat : from <= d /\ d < to /\ is_session(calendar, d) => \E i \in DOMAIN R : R[i] = d

LEMMA ListsMore ==
    ASSUME NEW calendar, NEW R, NEW from \in Nat, NEW to \in Nat, from <= to, Lists(calendar, R, from, to)
    PROVE  /\ is_session(calendar, to) => Lists(calendar, Append(R, to), from, to + 1)
           /\ ~is_session(calendar, to) => Lists(calendar, R, from, to + 1)
  <1>1. ASSUME is_session(calendar, to) PROVE Lists(calendar, Append(R, to), from, to + 1)
    <2> DEFINE Q == Append(R, to)
    <2>1. /\ Q \in Seq(Nat) /\ DOMAIN Q = 1..(Len(R) + 1) /\ DOMAIN R = 1..Len(R)
          /\ Len(R) \in Nat /\ Q[Len(R) + 1] = to
          /\ \A i \in DOMAIN R : Q[i] = R[i] /\ R[i] \in Nat
      BY DEF Lists
    <2> HIDE DEF Q
    <2>2. \A i \in DOMAIN Q : i \in DOMAIN R \/ i = Len(R) + 1
      BY <2>1
    <2>3. \A i \in DOMAIN Q : from <= Q[i] /\ Q[i] < to + 1 /\ is_session(calendar, Q[i])
      BY <1>1, <2>1, <2>2 DEF Lists
    <2>4. \A i, j \in DOMAIN Q : i < j => Q[i] < Q[j]
      <3> SUFFICES ASSUME NEW i \in DOMAIN Q, NEW j \in DOMAIN Q, i < j PROVE Q[i] < Q[j]
        OBVIOUS
      <3>1. i \in DOMAIN R /\ Q[i] = R[i] /\ R[i] < to
        BY <2>1, <2>2 DEF Lists
      <3> QED
        BY <2>1, <2>2, <3>1 DEF Lists
    <2>5. ASSUME NEW d \in Nat, from <= d, d < to + 1, is_session(calendar, d)
          PROVE  \E i \in DOMAIN Q : Q[i] = d
      <3>1. CASE d = to
        BY <2>1, <3>1
      <3>2. CASE d < to
        <4>1. PICK i \in DOMAIN R : R[i] = d
          BY <2>5, <3>2 DEF Lists
        <4>2. i \in DOMAIN Q
          BY <2>1, <4>1
        <4> QED
          BY <2>1, <4>1, <4>2
      <3> QED
        BY <2>5, <3>1, <3>2
    <2> QED
      BY <2>1, <2>3, <2>4, <2>5 DEF Lists, Q
  <1>2. ASSUME ~is_session(calendar, to) PROVE Lists(calendar, R, from, to + 1)
    <2>1. \A i \in DOMAIN R : from <= R[i] /\ R[i] < to + 1 /\ is_session(calendar, R[i])
      BY DEF Lists
    <2>2. \A d \in Nat : from <= d /\ d < to + 1 /\ is_session(calendar, d) => d < to
      BY <1>2
    <2> QED
      BY <2>1, <2>2 DEF Lists
  <1> QED
    BY <1>1, <1>2

LEMMA SessionsListed ==
    ASSUME NEW calendar, NEW start \in Nat, NEW end \in Int, end >= start - 1
    PROVE  Lists(calendar, sessions(calendar, start, end), start, end + 1)
  <1>1. PICK f \in [Nat -> Seq(Nat)] :
              /\ f[0] = <<>>
              /\ \A n \in Nat : f[n + 1] = IF is_session(calendar, start + n)
                                           THEN Append(f[n], start + n) ELSE f[n]
              /\ \A e \in Int : e >= start => sessions(calendar, start, e) = f[e - start + 1]
              /\ \A e \in Int : e < start => sessions(calendar, start, e) = <<>>
    BY Yielding
  <1>2. \A n \in Nat : Lists(calendar, f[n], start, start + n)
    <2> DEFINE T == {n \in Nat : ~Lists(calendar, f[n], start, start + n)}
    <2>1. SUFFICES ASSUME T # {} PROVE FALSE
      OBVIOUS
    <2>2. PICK n \in T : \A j \in T : n <= j
      BY <2>1, LeastNatural
    <2>3. n # 0
      <3>1. Lists(calendar, <<>>, start, start + 0)
        BY DEF Lists
      <3> QED
        BY <1>1, <2>2, <3>1
    <2> DEFINE m == n - 1
    <2>4. m \in Nat /\ m + 1 = n /\ m \notin T
      BY <2>2, <2>3
    <2> HIDE DEF m
    <2>5. Lists(calendar, f[m], start, start + m)
      BY <2>4
    <2>6. Lists(calendar, f[m + 1], start, start + m + 1)
      <3>1. start + m \in Nat /\ start <= start + m
        BY <2>4
      <3>2. CASE is_session(calendar, start + m)
        <4>1. f[m + 1] = Append(f[m], start + m)
          BY <1>1, <2>4, <3>2
        <4>2. Lists(calendar, Append(f[m], start + m), start, start + m + 1)
          BY <2>5, <3>1, <3>2, ListsMore
        <4> QED
          BY <4>1, <4>2
      <3>3. CASE ~is_session(calendar, start + m)
        <4>1. f[m + 1] = f[m]
          BY <1>1, <2>4, <3>3
        <4>2. Lists(calendar, f[m], start, start + m + 1)
          BY <2>5, <3>1, <3>3, ListsMore
        <4> QED
          BY <4>1, <4>2
      <3> QED
        BY <3>2, <3>3
    <2>7. start + m + 1 = start + n
      BY <2>4
    <2> QED
      BY <2>2, <2>4, <2>6, <2>7
  <1>3. CASE end >= start
    <2>1. end - start + 1 \in Nat /\ start + (end - start + 1) = end + 1
      BY <1>3
    <2>2. sessions(calendar, start, end) = f[end - start + 1]
      BY <1>1, <1>3
    <2>3. Lists(calendar, f[end - start + 1], start, start + (end - start + 1))
      BY <1>2, <2>1
    <2> QED
      BY <2>1, <2>2, <2>3
  <1>4. CASE end = start - 1
    <2>1. sessions(calendar, start, end) = f[0] /\ end + 1 = start + 0
      BY <1>1, <1>4
    <2> QED
      BY <1>2, <2>1
  <1> QED
    BY <1>3, <1>4

Least(T) == CHOOSE x \in T : \A y \in T : x <= y

LEMMA LeastIs ==
    ASSUME NEW T \in SUBSET Nat, NEW x \in T, \A y \in T : x <= y
    PROVE  Least(T) = x
  <1>1. \A z \in T : (\A y \in T : z <= y) => z = x
    OBVIOUS
  <1> QED
    BY <1>1 DEF Least

(* The session after a day is the next there is. *)
LEMMA NextSession ==
    ASSUME NEW calendar, NEW d \in Int, d >= -1, NEW e \in Nat, d < e, is_session(calendar, e),
           \A k \in Nat : d < k /\ k < e => ~is_session(calendar, k)
    PROVE  next_session(calendar, d) = e
  <1> DEFINE IsNext(c) == c = [k \in Nat |-> IF is_session(calendar, k) THEN k ELSE c[k + 1]]
             candidate == CHOOSE c : IsNext(c)
             Later(k) == {j \in Nat : k <= j /\ is_session(calendar, j)}
             g == [k \in Nat |-> IF Later(k) = {} THEN 0 ELSE Least(Later(k))]
  <1>1. IsNext(g)
    <2>1. ASSUME NEW k \in Nat PROVE g[k] = IF is_session(calendar, k) THEN k ELSE g[k + 1]
      <3>1. CASE is_session(calendar, k)
        <4>1. Later(k) \in SUBSET Nat /\ k \in Later(k) /\ \A y \in Later(k) : k <= y
          BY <3>1
        <4>2. Least(Later(k)) = k
          <5> HIDE DEF Later
          <5> QED
            BY <4>1, LeastIs
        <4>3. g[k] = Least(Later(k))
          BY <4>1
        <4> QED
          BY <3>1, <4>2, <4>3
      <3>2. CASE ~is_session(calendar, k)
        <4>1. Later(k) = Later(k + 1)
          <5>1. \A j \in Nat : k <= j /\ is_session(calendar, j) <=> k + 1 <= j /\ is_session(calendar, j)
            BY <3>2
          <5> QED
            BY <5>1
        <4> DEFINE now  == Later(k)
                   next == Later(k + 1)
        <4>2. /\ g[k] = IF now = {} THEN 0 ELSE Least(now)
              /\ g[k + 1] = IF next = {} THEN 0 ELSE Least(next)
          OBVIOUS
        <4>3. now = next
          BY <4>1
        <4> HIDE DEF now, next, g
        <4> QED
          BY <3>2, <4>2, <4>3
      <3> QED
        BY <3>1, <3>2
    <2> QED
      BY <2>1
  <1>2. IsNext(candidate)
    BY <1>1
  <1> HIDE DEF candidate
  <1>3. \A k \in Nat : candidate[k] = IF is_session(calendar, k) THEN k ELSE candidate[k + 1]
    BY <1>2
  <1>4. \A n \in Nat : n < e - d => candidate[e - n] = e
    <2> DEFINE T == {n \in Nat : n < e - d /\ candidate[e - n] # e}
    <2>1. SUFFICES ASSUME T # {} PROVE FALSE
      OBVIOUS
    <2>2. PICK n \in T : \A j \in T : n <= j
      BY <2>1, LeastNatural
    <2>3. n # 0
      <3>1. candidate[e - 0] = e
        BY <1>3
      <3> QED
        BY <2>2, <3>1
    <2> DEFINE m == n - 1
    <2>4. m \in Nat /\ m + 1 = n /\ m \notin T /\ m < e - d
      BY <2>2, <2>3
    <2>5. candidate[e - m] = e
      BY <2>4
    <2>6. /\ e - n \in Nat /\ d < e - n /\ e - n < e
          /\ (e - n) + 1 = e - m
      BY <2>2, <2>3
    <2>7. candidate[e - n] = candidate[(e - n) + 1]
      BY <1>3, <2>6
    <2> QED
      BY <2>2, <2>5, <2>6, <2>7
  <1>5. candidate[d + 1] = e
    <2>1. e - d - 1 \in Nat /\ e - d - 1 < e - d /\ e - (e - d - 1) = d + 1
      OBVIOUS
    <2> QED
      BY <1>4, <2>1
  <1>6. next_session(calendar, d) = candidate[d + 1]
    BY DEF next_session, candidate
  <1> QED
    BY <1>5, <1>6

(* The session before a day is the last there was. *)
LEMMA PreviousSession ==
    ASSUME NEW calendar, NEW d \in Nat, NEW e \in Nat, e < d, is_session(calendar, e),
           \A k \in Nat : e < k /\ k < d => ~is_session(calendar, k)
    PROVE  previous_session(calendar, d) = e
  <1> DEFINE IsLast(c) == c = [k \in Int |-> IF is_session(calendar, k) THEN k ELSE c[k - 1]]
             candidate == CHOOSE c : IsLast(c)
             Ago(k) == {j \in Nat : is_session(calendar, k - j)}
             g == [k \in Int |-> IF Ago(k) = {} THEN 0 ELSE k - Least(Ago(k))]
  <1>1. IsLast(g)
    <2>1. ASSUME NEW k \in Int PROVE g[k] = IF is_session(calendar, k) THEN k ELSE g[k - 1]
      <3>0. /\ \A i \in Int : Ago(i) \in SUBSET Nat
            /\ \A i \in Int, j \in Nat : j \in Ago(i) <=> is_session(calendar, i - j)
            /\ \A i \in Int : g[i] = IF Ago(i) = {} THEN 0 ELSE i - Least(Ago(i))
        OBVIOUS
      <3>1. CASE is_session(calendar, k)
        <4>1. 0 \in Ago(k)
          <5>1. k - 0 = k
            OBVIOUS
          <5> QED
            BY <3>1, <5>1
        <4> HIDE DEF Ago, g
        <4>2. \A y \in Ago(k) : 0 <= y
          BY <3>0
        <4>3. Least(Ago(k)) = 0
          BY <3>0, <4>1, <4>2, LeastIs
        <4>4. g[k] = k - Least(Ago(k))
          BY <3>0, <4>1
        <4> QED
          BY <3>1, <4>3, <4>4
      <3>2. CASE ~is_session(calendar, k)
        <4>1. ASSUME NEW j \in Nat PROVE j \in Ago(k - 1) <=> j + 1 \in Ago(k)
          <5>1. (k - 1) - j = k - (j + 1)
            OBVIOUS
          <5> QED
            BY <5>1
        <4>2. 0 \notin Ago(k)
          <5>1. k - 0 = k
            OBVIOUS
          <5> QED
            BY <3>2, <5>1
        <4> HIDE DEF Ago, g
        <4>3. CASE Ago(k) = {}
          <5>1. Ago(k - 1) = {}
            BY <3>0, <4>1, <4>3
          <5>2. g[k] = 0
            BY <3>0, <4>3
          <5>3. g[k - 1] = 0
            <6>1. k - 1 \in Int
              OBVIOUS
            <6> QED
              BY <3>0, <5>1, <6>1
          <5> QED
            BY <3>2, <5>2, <5>3
        <4>4. CASE Ago(k) # {}
          <5>1. PICK x \in Ago(k) : \A y \in Ago(k) : x <= y
            BY <3>0, <4>4, LeastNatural
          <5>2. x \in Nat /\ x - 1 \in Nat /\ (x - 1) + 1 = x
            <6>1. x \in Nat
              BY <3>0, <5>1
            <6>2. x # 0
              BY <4>2, <5>1
            <6> QED
              BY <6>1, <6>2
          <5>3. x - 1 \in Ago(k - 1)
            BY <4>1, <5>1, <5>2
          <5>4. ASSUME NEW y \in Ago(k - 1) PROVE x - 1 <= y
            <6>1. y \in Nat
              BY <3>0
            <6>2. y + 1 \in Ago(k)
              BY <4>1, <6>1
            <6> QED
              BY <5>1, <5>2, <6>1, <6>2
          <5>5. Least(Ago(k)) = x
            BY <3>0, <5>1, LeastIs
          <5>6. Least(Ago(k - 1)) = x - 1
            <6> DEFINE S == Ago(k - 1)
                       z == x - 1
            <6>1. S \in SUBSET Nat /\ z \in S /\ \A y \in S : z <= y
              BY <3>0, <5>3, <5>4
            <6> HIDE DEF S, z
            <6>2. Least(S) = z
              BY <6>1, LeastIs
            <6> QED
              BY <6>2 DEF S, z
          <5>7. g[k] = k - x
            BY <3>0, <4>4, <5>5
          <5>8. g[k - 1] = (k - 1) - (x - 1)
            BY <3>0, <5>3, <5>6
          <5> QED
            BY <3>2, <5>2, <5>7, <5>8
        <4> QED
          BY <4>3, <4>4
      <3> QED
        BY <3>1, <3>2
    <2>2. g = [k \in Int |-> g[k]]
      OBVIOUS
    <2> HIDE DEF g
    <2> QED
      BY <2>1, <2>2
  <1>2. IsLast(candidate)
    BY <1>1
  <1> HIDE DEF candidate
  <1>3. \A k \in Int : candidate[k] = IF is_session(calendar, k) THEN k ELSE candidate[k - 1]
    BY <1>2
  <1>4. \A n \in Nat : n < d - e => candidate[e + n] = e
    <2> DEFINE T == {n \in Nat : n < d - e /\ candidate[e + n] # e}
    <2>1. SUFFICES ASSUME T # {} PROVE FALSE
      OBVIOUS
    <2>2. PICK n \in T : \A j \in T : n <= j
      BY <2>1, LeastNatural
    <2>3. n # 0
      <3>1. candidate[e + 0] = e
        BY <1>3
      <3> QED
        BY <2>2, <3>1
    <2> DEFINE m == n - 1
    <2>4. m \in Nat /\ m + 1 = n /\ m \notin T /\ m < d - e
      BY <2>2, <2>3
    <2>5. candidate[e + m] = e
      BY <2>4
    <2>6. /\ e + n \in Nat /\ e < e + n /\ e + n < d
          /\ (e + n) - 1 = e + m
      BY <2>2, <2>3
    <2>7. candidate[e + n] = candidate[(e + n) - 1]
      BY <1>3, <2>6
    <2> QED
      BY <2>2, <2>5, <2>6, <2>7
  <1>5. candidate[d - 1] = e
    <2>1. d - 1 - e \in Nat /\ d - 1 - e < d - e /\ e + (d - 1 - e) = d - 1
      OBVIOUS
    <2> QED
      BY <1>4, <2>1
  <1>6. previous_session(calendar, d) = candidate[d - 1]
    BY DEF previous_session, candidate
  <1> QED
    BY <1>5, <1>6

(* Between a session and the next there are these two. *)
LEMMA TwoSessions ==
    ASSUME NEW calendar, NEW a \in Nat, NEW b \in Nat, a < b, is_session(calendar, a), is_session(calendar, b),
           \A k \in Nat : a < k /\ k < b => ~is_session(calendar, k)
    PROVE  session_count(calendar, a, b) = 2
  <1> DEFINE R == sessions(calendar, a, b)
  <1>1. Lists(calendar, R, a, b + 1)
    BY SessionsListed
  <1> HIDE DEF R
  <1>2. R \in Seq(Nat) /\ DOMAIN R = 1..Len(R) /\ Len(R) \in Nat
    BY <1>1 DEF Lists
  <1>3. \A i \in DOMAIN R : R[i] = a \/ R[i] = b
    <2> SUFFICES ASSUME NEW i \in DOMAIN R PROVE R[i] = a \/ R[i] = b
      OBVIOUS
    <2>1. R[i] \in Nat /\ a <= R[i] /\ R[i] < b + 1 /\ is_session(calendar, R[i])
      BY <1>1, <1>2 DEF Lists
    <2> QED
      BY <2>1
  <1>4. \A i, j \in DOMAIN R : i < j => R[i] < R[j]
    BY <1>1 DEF Lists
  <1>5. PICK i \in DOMAIN R : R[i] = a
    BY <1>1 DEF Lists
  <1>6. PICK j \in DOMAIN R : R[j] = b
    BY <1>1 DEF Lists
  <1>7. Len(R) >= 2
    BY <1>2, <1>5, <1>6
  <1>8. Len(R) < 3
    <2>1. SUFFICES ASSUME Len(R) >= 3 PROVE FALSE
      BY <1>2
    <2>2. 1 \in DOMAIN R /\ 2 \in DOMAIN R /\ 3 \in DOMAIN R
      BY <1>2, <2>1
    <2>3. R[1] < R[2] /\ R[2] < R[3]
      BY <1>4, <2>2
    <2> QED
      BY <1>3, <2>2, <2>3
  <1> QED
    BY <1>2, <1>7, <1>8 DEF session_count, R

(* A day more. *)
LEMMA SessionsGrow ==
    ASSUME NEW calendar, NEW d \in Nat
    PROVE  /\ sessions(calendar, 0, -1) = <<>>
           /\ sessions(calendar, 0, d)
                 = IF is_session(calendar, d) THEN Append(sessions(calendar, 0, d - 1), d)
                   ELSE sessions(calendar, 0, d - 1)
  <1>1. PICK f \in [Nat -> Seq(Nat)] :
              /\ f[0] = <<>>
              /\ \A n \in Nat : f[n + 1] = IF is_session(calendar, 0 + n)
                                           THEN Append(f[n], 0 + n) ELSE f[n]
              /\ \A e \in Int : e >= 0 => sessions(calendar, 0, e) = f[e - 0 + 1]
              /\ \A e \in Int : e < 0 => sessions(calendar, 0, e) = <<>>
    BY Yielding
  <1>2. sessions(calendar, 0, -1) = <<>>
    BY <1>1
  <1>3. sessions(calendar, 0, d) = f[d + 1]
    <2>1. d - 0 + 1 = d + 1
      OBVIOUS
    <2> QED
      BY <1>1, <2>1
  <1>4. sessions(calendar, 0, d - 1) = f[d]
    <2>1. CASE d = 0
      BY <1>1, <2>1
    <2>2. CASE d # 0
      <3>1. d - 1 >= 0 /\ (d - 1) - 0 + 1 = d
        BY <2>2
      <3> QED
        BY <1>1, <3>1
    <2> QED
      BY <2>1, <2>2
  <1>5. f[d + 1] = IF is_session(calendar, d) THEN Append(f[d], d) ELSE f[d]
    <2>1. 0 + d = d
      OBVIOUS
    <2> QED
      BY <1>1, <2>1
  <1> QED
    BY <1>2, <1>3, <1>4, <1>5

(* In a list of all sessions each is the next of the one before it.         *)
LEMMA ListFound ==
    ASSUME NEW calendar, NEW R, NEW to \in Nat, Lists(calendar, R, 0, to),
           NEW i \in 1..(Len(R) - 1)
    PROVE  /\ next_session(calendar, R[i]) = R[i + 1]
           /\ previous_session(calendar, R[i + 1]) = R[i]
           /\ session_count(calendar, R[i], R[i + 1]) = 2
           /\ \A d \in (R[i] + 1)..R[i + 1] : previous_session(calendar, d) = R[i]
  <1> DEFINE a == R[i]
             b == R[i + 1]
  <1>1. R \in Seq(Nat) /\ Len(R) \in Nat /\ DOMAIN R = 1..Len(R)
    BY DEF Lists
  <1>2. i \in DOMAIN R /\ i + 1 \in DOMAIN R /\ i \in Nat
    BY <1>1
  <1>3. a \in Nat /\ b \in Nat /\ a < b
    BY <1>1, <1>2 DEF Lists
  <1>4. is_session(calendar, a) /\ is_session(calendar, b) /\ b < to
    BY <1>2 DEF Lists
  <1>5. ASSUME NEW k \in Nat, a < k, k < b, is_session(calendar, k) PROVE FALSE
    <2>1. 0 <= k /\ k < to
      BY <1>3, <1>4, <1>5
    <2>2. PICK j \in DOMAIN R : R[j] = k
      BY <1>5, <2>1 DEF Lists
    <2>3. \A x, y \in DOMAIN R : x < y => R[x] < R[y]
      BY DEF Lists
    <2>4. j \in Nat
      BY <1>1
    <2>5. CASE j < i
      <3>1. R[j] < a
        BY <1>2, <2>3, <2>5
      <3> QED
        BY <1>3, <1>5, <2>2, <3>1
    <2>6. CASE j = i
      BY <1>3, <1>5, <2>2, <2>6
    <2>7. CASE j = i + 1
      BY <1>3, <1>5, <2>2, <2>7
    <2>8. CASE j > i + 1
      <3>1. b < R[j]
        BY <1>2, <2>3, <2>8
      <3> QED
        BY <1>3, <1>5, <2>2, <3>1
    <2> QED
      BY <1>2, <2>4, <2>5, <2>6, <2>7, <2>8
  <1>6. \A k \in Nat : a < k /\ k < b => ~is_session(calendar, k)
    BY <1>5
  <1> HIDE DEF a, b
  <1>7. next_session(calendar, a) = b
    <2>1. a \in Int /\ a >= -1
      BY <1>3
    <2> QED
      BY <1>3, <1>4, <1>6, <2>1, NextSession
  <1>8. session_count(calendar, a, b) = 2
    BY <1>3, <1>4, <1>6, TwoSessions
  <1>9. ASSUME NEW d \in (a + 1)..b PROVE previous_session(calendar, d) = a
    <2>1. d \in Nat /\ a < d /\ d <= b
      BY <1>3
    <2>2. \A k \in Nat : a < k /\ k < d => ~is_session(calendar, k)
      BY <1>3, <1>6, <2>1
    <2> QED
      BY <1>3, <1>4, <2>1, <2>2, PreviousSession
  <1>10. b \in (a + 1)..b
    BY <1>3
  <1> QED
    BY <1>7, <1>8, <1>9, <1>10 DEF a, b

(* The bars of regular sessions are those the calendar enumerates.          *)
Enumerated == day \in Nat /\ index \in Seq(Nat) /\ Regular(cal, index) = sessions(cal, 0, day - 1)

LEMMA EnumeratedStep == ASSUME Enumerated, [Next]_zooVars PROVE Enumerated'
  <1>1. /\ Regular(cal, <<>>) = <<>>
        /\ Regular(cal, Append(index, day))
              = IF is_session(cal, day) THEN Append(Regular(cal, index), day)
                ELSE Regular(cal, index)
    BY RegularGrows DEF Enumerated
  <1>2. /\ sessions(cal, 0, -1) = <<>>
        /\ sessions(cal, 0, day)
              = IF is_session(cal, day) THEN Append(sessions(cal, 0, day - 1), day)
                ELSE sessions(cal, 0, day - 1)
    BY SessionsGrow DEF Enumerated
  <1>3. CASE TradingDay
    <2>1. index' = Append(index, day) /\ day' = day + 1 /\ cal' = cal
      BY <1>3 DEF TradingDay
    <2>2. /\ day + 1 \in Nat /\ (day + 1) - 1 = day
          /\ Append(index, day) \in Seq(Nat)
      BY DEF Enumerated
    <2>3. Regular(cal, Append(index, day)) = sessions(cal, 0, day)
      BY <1>1, <1>2 DEF Enumerated
    <2>4. Regular(cal', index') = sessions(cal', 0, day' - 1)
      BY <2>1, <2>2, <2>3
    <2> QED
      BY <2>1, <2>2, <2>4 DEF Enumerated
  <1>4. CASE ClosedDay
    <2>1. index' = index /\ day' = day + 1 /\ cal' = cal /\ ~is_session(cal, day)
      BY <1>4 DEF ClosedDay, is_trading_day
    <2>2. day + 1 \in Nat /\ (day + 1) - 1 = day
      BY DEF Enumerated
    <2>3. Regular(cal, index) = sessions(cal, 0, day)
      BY <1>2, <2>1 DEF Enumerated
    <2>4. Regular(cal', index') = sessions(cal', 0, day' - 1)
      BY <2>1, <2>2, <2>3
    <2> QED
      BY <2>1, <2>2, <2>4 DEF Enumerated
  <1>5. CASE HandOver
    <2>1. index' = <<>> /\ day' = 0 /\ cal' = cal /\ 0 - 1 = -1
      BY <1>5 DEF HandOver
    <2>2. Regular(cal', index') = sessions(cal', 0, day' - 1)
      BY <1>1, <1>2, <2>1
    <2> QED
      BY <2>1, <2>2 DEF Enumerated
  <1>6. CASE UNCHANGED strategyVars
    <2>1. index' = index /\ day' = day /\ cal' = cal
      BY <1>6 DEF strategyVars
    <2>2. Regular(cal', index') = sessions(cal', 0, day' - 1)
      BY <2>1 DEF Enumerated
    <2> QED
      BY <2>1, <2>2 DEF Enumerated
  <1> QED
    BY <1>3, <1>4, <1>5, <1>6 DEF Next, Research, StrategiesNext, GateStep, zooVars

(* Whatever the holidays, muhurat days and weekends, through any number of  *)
(* days: sessions, next_session, previous_session and session_count agree   *)
(* with one another and with the bars.                                      *)
THEOREM SessionsAreFound == Spec => []SessionsFound
  <1>1. Init => Enumerated
    <2> SUFFICES ASSUME Init PROVE Enumerated
      OBVIOUS
    <2>1. index = <<>> /\ day = 0 /\ 0 - 1 = -1
      BY DEF Init, StrategiesInit
    <2>2. Regular(cal, <<>>) = <<>>
      <3>1. <<>> \in Seq(Nat) /\ 0 \in Nat
        OBVIOUS
      <3> QED
        BY <3>1, RegularGrows
    <2>3. sessions(cal, 0, -1) = <<>>
      BY SessionsGrow
    <2> QED
      BY <2>1, <2>2, <2>3 DEF Enumerated
  <1>2. Enumerated /\ [Next]_zooVars => Enumerated'
    BY EnumeratedStep
  <1>3. Enumerated => SessionsFound
    <2> SUFFICES ASSUME Enumerated PROVE SessionsFound
      OBVIOUS
    <2> DEFINE R == Regular(cal, index)
    <2>1. R = sessions(cal, 0, day - 1) /\ day \in Nat
      BY DEF Enumerated
    <2>2. Lists(cal, sessions(cal, 0, day - 1), 0, (day - 1) + 1)
      <3>1. day - 1 \in Int /\ day - 1 >= 0 - 1 /\ 0 \in Nat
        BY <2>1
      <3> QED
        BY <3>1, SessionsListed
    <2>3. Lists(cal, R, 0, day)
      <3>1. (day - 1) + 1 = day
        BY <2>1
      <3> QED
        BY <2>1, <2>2, <3>1
    <2> HIDE DEF R
    <2>4. \A i \in 1..(Len(R) - 1) :
             /\ next_session(cal, R[i]) = R[i + 1]
             /\ previous_session(cal, R[i + 1]) = R[i]
             /\ session_count(cal, R[i], R[i + 1]) = 2
             /\ \A d \in (R[i] + 1)..R[i + 1] : previous_session(cal, d) = R[i]
      BY <2>1, <2>3, ListFound
    <2> QED
      BY <2>1, <2>4 DEF SessionsFound, R
  <1> QED
    BY <1>1, <1>2, <1>3, PTL DEF Spec

=============================================================================
