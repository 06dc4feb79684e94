---------------------------- MODULE MCAscDevice -----------------------------
(* AscDevice with three registers of one byte: a plain one, one with a     *)
(* mask and bits that the hardware changes, and a NULL pointer.            *)
EXTENDS AscDevice, TLC

MCMasks    == 0 :> 0 .. 7 @@ 1 :> {0, 1} @@ 2 :> 0 .. 7
MCInitial  == 0 :> {} @@ 1 :> {6} @@ 2 :> {3}
MCHardware == 0 :> {} @@ 1 :> {7} @@ 2 :> {}

MCConfigs ==
  {[func_rw |-> "none", state_rw |-> FALSE, func_nf |-> FALSE]}
    \cup [func_rw : {"block", "pointers"}, state_rw : BOOLEAN, func_nf : {TRUE}]

(* Data by its characters: '0' .. '3', 'A', 'f', 'G' and ','.              *)
Reg0 == <<48, 48, 48, 48>>
Reg1 == <<48, 48, 48, 49>>
Reg2 == <<48, 48, 48, 50>>
Reg3 == <<48, 48, 48, 51>>

Data ==
  [read |-> {Reg0, Reg1, Reg2, Reg3, <<48>>},
   write |-> {Reg0 \o <<44, 65, 49, 48>>, Reg0 \o <<44, 102>>, Reg0 \o <<44>>,
              Reg1 \o <<44, 49, 50>>, Reg2 \o <<44, 71, 49>>, <<48, 71, 48, 48>>}]

MCRequests ==
  {[command |-> R, data |-> data] : data \in Data.read}
    \cup {[command |-> W, data |-> data] : data \in Data.write}
    \cup {[command |-> c, data |-> <<>>] : c \in {N, F, Z, 115}}

(* Without values that are too long, which are cut.                        *)
MCNoLongRequests == {m \in MCRequests : Len(m.data) <= 5 + Digits}

MCBadData == {<<48, 48, 48, 48, 44, 71, 71>>}
MCChars == {0, 44, 71, 102} \cup 48 .. 57 \cup 65 .. 70

=============================================================================
