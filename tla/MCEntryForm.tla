----------------------------- MODULE MCEntryForm -----------------------------
(***************************************************************************)
(* Two bands with a common edge, at which the second has its default, and  *)
(* a frequency outside; a mode with submodes, one without, and one that    *)
(* radios have and the list has not.                                       *)
(***************************************************************************)
EXTENDS EntryForm

MCPlan == <<[name |-> "6m", low |-> 50, high |-> 54, default |-> 50],
            [name |-> "5m", low |-> 54, high |-> 60, default |-> 54]>>

MCModeTable == <<[mode |-> "SSB", rst |-> "59", submodes |-> <<"USB", "LSB">>],
                 [mode |-> "FT8", rst |-> "+0", submodes |-> <<>>]>>

MCRadioModes == {<<"SSB", "LSB">>, <<"FT8", "">>, <<"DRM", "">>}

MCAnnounced ==
  {[freq |-> 60, mode |-> <<"FT8", "">>, call |-> call, grid |-> square] :
     call \in Calls, square \in BOOLEAN} \cup
  {[freq |-> 0, mode |-> <<"FT8", "">>, call |-> "", grid |-> FALSE]}

=============================================================================
