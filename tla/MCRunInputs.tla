----------------------------- MODULE MCRunInputs -----------------------------
(* Instances of RunInputs: three days of meteorology and of emissions. *)
EXTENDS RunInputs

Day == 86400

MCMonth == 2 * Day
MCFiles == [hourly |-> [i \in 1..72 |-> (i - 1) * Hour], daily |-> [i \in 1..3 |-> (i - 1) * Day],
            monthly |-> <<0, MCMonth>>, constant |-> <<0>>]
MCScales == [diurnal |-> [file |-> "hourly", frequency |-> "hourly"],
             seasonal |-> [file |-> "monthly", frequency |-> "monthly"],
             unit |-> [file |-> NumberScale, frequency |-> "constant"]]
MCFields == <<[file |-> "daily", frequency |-> "daily", scales |-> <<"diurnal", "unit">>],
              [file |-> "constant", frequency |-> "constant", scales |-> <<"seasonal">>]>>

Config(backend, dt, every, initial, multiple, length, most) ==
  [backend |-> backend, dt |-> dt, edt |-> every * dt, initial |-> initial,
   multiple |-> multiple, length |-> length, most |-> most, days |-> 3]

MCRuns ==
  {Config(backend, 5400, every, initial, multiple, 30 * Hour, NoLimit) :
     backend \in {"cpu", "cuda"}, every \in {1, 3}, initial \in {0, 3}, multiple \in {1, 2}}
  \union
  {Config(backend, 3600, every, 1, 1, 13 * Hour, most) :
     backend \in {"cpu", "cuda"}, every \in {2, 4, 5}, most \in {NoLimit, 9}}
  \union
  {Config(backend, dt, 2, 16, 1, 2 * Day, NoLimit) :
     backend \in {"cpu", "cuda"}, dt \in {7200, 10800}}

CudaRuns == {Config("cuda", 5400, 2, 0, 1, 12 * Hour, NoLimit)}
=============================================================================
