---------------------------- MODULE DatastoreColumns ----------------------------
(***************************************************************************)
(* One row of the blocks the trainer and a controller swap: where the      *)
(* simulation, the configured datastore setters and getters, the reset and *)
(* the status lie (hpp/io_layout.hpp, bridge/controller_datastore.py), and *)
(* the setters' feeds and getters' readouts of                             *)
(* actions/mc_rtc_residual_action.py.  Columns count from zero.            *)
(***************************************************************************)
EXTENDS Integers, SequencesExt

CONSTANTS Simulated,       \* columns the simulation owns in the input block
          Controlled,      \* columns the joint targets take in the output block
          Configurations,  \* cfg: the setters and getters as configured, with repetitions
          MaxFeeds         \* bound on the values fed

\* What is assumed of the constants.
ColumnsAssumption ==
  /\ Simulated \in Nat /\ Controlled \in Nat /\ MaxFeeds \in Nat
  /\ Configurations \subseteq [{"scalarIn", "vectorIn", "scalarOut", "vectorOut"} -> Seq(STRING)]

VARIABLES
  cfg,              \* [scalarIn, vectorIn, scalarOut, vectorOut]: sequences of names
  input, output,    \* the row of either block
  feed, fed,        \* the value of each setter and the number of values fed so far
  pendingReset,
  heard, returned,  \* what the controller last took and returned, by name
  dispatched,       \* history: the feeds and the reset of that dispatch
  readout           \* the collected getters, by name

vars == <<cfg, input, output, feed, fed, pendingReset, heard, returned, dispatched, readout>>
-----------------------------------------------------------------------------
\* dict.fromkeys: the first occurrences, in their order.
Firsts(names) == {i \in DOMAIN names : \A j \in 1..i - 1 : names[j] # names[i]}

Rank(names, i) == Cardinality({j \in Firsts(names) : j <= i})

Distinct(names) ==
  [k \in 1..Cardinality(Firsts(names)) |->
     names[CHOOSE i \in Firsts(names) : Rank(names, i) = k]]

\* _build_bridge: the callbacks the layout declares.
Layout == [kind \in DOMAIN cfg |-> Distinct(cfg[kind])]

WidthOf(kind) == IF kind \in {"vectorIn", "vectorOut"} THEN 3 ELSE 1

\* The offsets of either layout.
Offset(kind) ==
  CASE kind = "scalarIn" -> Simulated
    [] kind = "vectorIn" -> Simulated + Len(Layout.scalarIn)
    [] kind = "reset" -> Simulated + Len(Layout.scalarIn) + 3 * Len(Layout.vectorIn)
    [] kind = "scalarOut" -> Controlled
    [] kind = "vectorOut" -> Controlled + Len(Layout.scalarOut)
    [] kind = "status" -> Controlled + Len(Layout.scalarOut) + 3 * Len(Layout.vectorOut)

\* list.index, from zero.
Index(names, n) == (CHOOSE i \in DOMAIN names : names[i] = n) - 1

\* Mutant: a setter's column is its place in the configuration, repetitions included.
Columns_Configured(kind) ==
  [n \in ToSet(cfg[kind]) |-> Offset(kind) + WidthOf(kind) * Index(cfg[kind], n)]

\* input_columns and output_columns: the first column of each configured name.
Columns(kind) ==
  [n \in ToSet(cfg[kind]) |-> Offset(kind) + WidthOf(kind) * Index(Layout[kind], n)]

Setters == ToSet(cfg.scalarIn) \cup ToSet(cfg.vectorIn)

\* A cell is who wrote it, its value and the component; a value has one per column.
Components(who, value, kind) == [c \in 0..WidthOf(kind) - 1 |-> <<who, value, c>>]

\* write_inputs: every setter of a kind over its own columns.
Written(row, kind) ==
  [c \in DOMAIN row |->
     LET own == {n \in ToSet(cfg[kind]) : c - Columns(kind)[n] \in 0..WidthOf(kind) - 1}
     IN  IF own = {} THEN row[c]
         ELSE LET n == CHOOSE n \in own : TRUE
              IN  Components("fed", feed[n], kind)[c - Columns(kind)[n]]]

\* What lies at an offset: the controller's ends reads and writes by position in the layout.
At(row, offset, width) == [c \in 0..width - 1 |-> row[offset + c]]

Taken(row, kind) ==
  [n \in ToSet(cfg[kind]) |->
     At(row, Offset(kind) + WidthOf(kind) * Index(Layout[kind], n), WidthOf(kind))]

ResetColumn == Offset("reset")

\* Both sizes count the columns declared before the blocks are created.
InputSize == Offset("reset") + 1

Init ==
  /\ cfg \in Configurations
  /\ input = [c \in 0..InputSize - 1 |-> <<"zero", 0, 0>>]
  /\ output = [c \in 0..Offset("status") |-> <<"zero", 0, 0>>]
  /\ feed = [n \in Setters |-> 0] /\ fed = 0 /\ pendingReset = 1
  /\ heard = <<>> /\ returned = <<>> /\ dispatched = <<>>
  /\ readout = [kind \in {"scalarOut", "vectorOut"} |->
                  [n \in ToSet(cfg[kind]) |-> Components("zero", 0, kind)]]

\* set_datastore_scalar_input and set_datastore_vector_input; another name is a KeyError.
SetInput(n) ==
  /\ fed < MaxFeeds /\ fed' = fed + 1 /\ feed' = [feed EXCEPT ![n] = fed']
  /\ UNCHANGED <<cfg, input, output, pendingReset, heard, returned, dispatched, readout>>

\* _input_width: the contiguous prefix the simulation owns.
SimulationWidth == Offset("scalarIn")

\* _advance_control_period writes the row in this order, and the controller works on it.
Dispatch(reset) ==
  LET simulated == [c \in DOMAIN input |->
                      IF c < SimulationWidth THEN <<"sim", 0, c>> ELSE input[c]]
      written == Written(Written(simulated, "scalarIn"), "vectorIn")
      row == [written EXCEPT ![ResetColumn] = <<"reset", reset, 0>>]
  IN  /\ input' = row
      /\ heard' = [sensors |-> At(row, 0, Simulated), scalars |-> Taken(row, "scalarIn"),
                   vectors |-> Taken(row, "vectorIn"), reset |-> row[Offset("reset")]]
      /\ dispatched' = [feed |-> feed, reset |-> <<"reset", reset, 0>>]

\* apply_output: every getter writes at its place; a value names the getter and the dispatch.
Answered ==
  [c \in DOMAIN output |->
     IF c < Controlled THEN <<"control", 0, c>>
     ELSE IF c < Offset("vectorOut") THEN <<Layout.scalarOut[c - Controlled + 1], fed, 0>>
     ELSE IF c < Offset("status")
       THEN LET k == c - Offset("vectorOut")
            IN  <<Layout.vectorOut[k \div 3 + 1], fed, k % 3>>
     ELSE <<"OK", 0, 0>>]

Getters == {"scalarOut", "vectorOut"}

\* read_outputs: each getter from its first column on.
Collected ==
  [kind \in Getters |-> [n \in ToSet(cfg[kind]) |-> At(output, Columns(kind)[n], WidthOf(kind))]]

\* A control period: collect the row of the last dispatch, then dispatch the next.
Period ==
  /\ readout' = IF heard = <<>> THEN readout ELSE Collected
  /\ Dispatch(pendingReset)
  /\ output' = Answered
  /\ returned' = [value |-> fed, last |-> IF heard = <<>> THEN -1 ELSE returned.value]
  /\ pendingReset' \in 0..1
  /\ UNCHANGED <<cfg, feed, fed>>

Next == Period \/ \E n \in Setters : SetInput(n)

Spec == Init /\ [][Next]_vars
-----------------------------------------------------------------------------
TypeOK ==
  /\ cfg \in Configurations /\ fed \in 0..MaxFeeds /\ feed \in [Setters -> 0..fed]
  /\ DOMAIN input = 0..Offset("reset") /\ DOMAIN output = 0..Offset("status")

\* "the value holds until set again": the controller hears of each setter the value it was
\* last fed, whatever else is configured and however often.
CallbacksHearTheirFeeds ==
  heard # <<>> =>
    /\ \A n \in ToSet(cfg.scalarIn) :
         heard.scalars[n] = Components("fed", dispatched.feed[n], "scalarIn")
    /\ \A n \in ToSet(cfg.vectorIn) :
         heard.vectors[n] = Components("fed", dispatched.feed[n], "vectorIn")

\* The datastore and reset columns survive the copy of the simulation's columns, and the
\* other way round.
ColumnsAreKeptApart ==
  heard # <<>> =>
    /\ heard.sensors = [c \in 0..Simulated - 1 |-> <<"sim", 0, c>>]
    /\ heard.reset = dispatched.reset

\* A readout is what that getter returned to the dispatch collected last.
ReadoutsAreTheGetters ==
  heard # <<>> /\ returned.last >= 0 =>
    \A kind \in Getters : \A n \in ToSet(cfg[kind]) :
      readout[kind][n] = Components(n, returned.last, kind)
=============================================================================
