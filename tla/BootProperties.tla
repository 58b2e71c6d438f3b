---------------------------- MODULE BootProperties ----------------------------
(***************************************************************************)
(* vendor_load_properties (libinit/init_sec.cpp): the system properties    *)
(* that init derives from the bootloader's name.  A name is a sequence of  *)
(* the parts by which the code tells the variants apart; the code looks    *)
(* for a pattern anywhere in the name, and it occurs only at the start.    *)
(***************************************************************************)
EXTENDS Integers, Sequences, SequencesExt

(* A branch: the pattern, the model, the modem library, and what is special *)
(* about the variant.                                                       *)
Branch(pattern, model, ril, traits) ==
  [pattern |-> pattern, model |-> model, ril |-> ril, traits |-> traits]

(* The branches in the order of the code.  The models are parts, too. *)
FirstS6 == <<
  Branch(<<"G920", "F", "D">>, <<"G920", "F">>, "ril",     {"dual"}),
  Branch(<<"G920", "F">>,      <<"G920", "F">>, "ril",     {}),
  Branch(<<"G920", "S">>,      <<"G920", "S">>, "ril",     {}),
  Branch(<<"G920", "K">>,      <<"G920", "K">>, "ril",     {}),
  Branch(<<"G920", "L">>,      <<"G920", "L">>, "ril",     {}),
  Branch(<<"G920", "P">>,      <<"G920", "P">>, "ril-spr", {"audience", "cdma"}),
  Branch(<<"G920", "I">>,      <<"G920", "I">>, "ril-india", {}) >>
LastS6 == <<
  Branch(<<"G920", "0">>,      <<"G920", "0">>, "ril-spr", {"audience", "dual", "cdma"}),
  Branch(<<"G920", "8">>,      <<"G920", "8">>, "ril-spr", {"audience", "dual", "cdma"}),
  Branch(<<"G920", "9">>,      <<"G920", "9">>, "ril-spr", {"audience", "dual", "cdma"}),
  Branch(<<"G920", "R", "4">>, <<"G920", "R", "4">>, "ril-spr",
         {"audience", "dual", "cdma"}),
  Branch(<<"G920", "R", "7">>, <<"G920", "R", "7">>, "ril-spr",
         {"audience", "dual", "cdma"}),
  Branch(<<"G920", "W", "8">>, <<"G920", "W", "8">>, "ril-canada", {"audience"}),
  Branch(<<"G920", "T">>,      <<"G920", "T">>, "ril-tmobile", {"audience"}) >>
FirstEdge == <<
  Branch(<<"G925", "F">>,      <<"G925", "F">>, "ril",     {"edge"}),
  Branch(<<"G925", "S">>,      <<"G925", "S">>, "ril",     {"edge"}),
  Branch(<<"G925", "K">>,      <<"G925", "K">>, "ril",     {"edge"}),
  Branch(<<"G925", "L">>,      <<"G925", "L">>, "ril",     {"edge"}),
  Branch(<<"G925", "P">>,      <<"G920", "P">>, "ril-spr", {"edge", "audience", "cdma"}),
  Branch(<<"G925", "I">>,      <<"G925", "I">>, "ril-india", {"edge"}) >>
LastEdge == <<
  Branch(<<"G925", "0">>,      <<"G925", "0">>, "ril-spr", {"edge", "dual", "cdma"}),
  Branch(<<"G925", "8">>,      <<"G925", "0">>, "ril-spr", {"edge", "dual", "cdma"}),
  Branch(<<"G925", "9">>,      <<"G925", "0">>, "ril-spr", {"edge", "dual", "cdma"}),
  Branch(<<"G925", "T">>,      <<"G925", "T">>, "ril-tmobile", {"edge", "audience"}),
  Branch(<<"G925", "W", "8">>, <<"G925", "W", "8">>, "ril-canada", {"edge", "audience"}),
  Branch(<<"G920">>,           <<"G920", "F">>, "ril",     {"edge"}),
  Branch(<<"G925">>,           <<"G925", "F">>, "ril",     {"edge"}) >>

(* Mutant: the patterns without a letter come before the others. *)
BranchesShortFirst == LastEdge \o FirstS6 \o LastS6 \o FirstEdge
Branches == FirstS6 \o LastS6 \o FirstEdge \o LastEdge

BranchOf(bootloader) ==
  SelectInSeq(Branches, LAMBDA b : IsPrefix(b.pattern, bootloader))

(* The properties before init overrides them. *)
Factory == [model |-> <<>>, audience |-> FALSE, ril |-> "default",
            simSlots |-> 1, ril2 |-> "none", network |-> "default",
            lteOn |-> "default", profile |-> "default"]

(* is_dual_sim_device, is_cdma_device, uses_edge_power_profile *)
DualSim(p) == [p EXCEPT !.simSlots = 2, !.ril2 = "ril-dsds"]
Cdma(p, on) == [p EXCEPT !.network = IF on THEN "10" ELSE "9",
                         !.lteOn = IF on THEN "cdma" ELSE "gsm"]
PowerProfile(p, edge, s7e) ==
  [p EXCEPT !.profile = IF s7e THEN "s6e" ELSE IF edge THEN "s7e_bat" ELSE @]

(* One branch of vendor_load_properties *)
Override(p, b, s7e) ==
  LET named == [p EXCEPT !.model = b.model, !.audience = "audience" \in b.traits,
                         !.ril = b.ril]
      powered == PowerProfile(named, "edge" \in b.traits, s7e)
      slots == IF "dual" \in b.traits THEN DualSim(powered) ELSE powered
  IN  Cdma(slots, "cdma" \in b.traits)

LoadProperties(bootloader, platform, s7e) ==
  IF platform # "exynos5" \/ BranchOf(bootloader) = 0 THEN Factory
  ELSE Override(Factory, Branches[BranchOf(bootloader)], s7e)
==============================================================================
