----------------------------- MODULE MCFuzzCampaign -----------------------------
(* A small instance of the campaign for TLC: two encodings, and catalogs that meet *)
(* each way a case becomes a model.                                                *)
EXTENDS FuzzCampaign

CONSTANTS a, b

Case(t, o) == [template |-> t, observations |-> o]

MCCatalogs == {
    <<>>,
    <<Case(TRUE, <<a>>)>>,                              \* one generalized case
    <<Case(FALSE, <<a, b>>)>>,                          \* no template: fallbacks
    <<Case(TRUE, <<a, b>>), Case(FALSE, <<b, a>>)>>,    \* mixed, encodings shared
    <<Case(FALSE, <<a, a>>), Case(FALSE, <<a, b>>)>>    \* the same encoding again
}
================================================================================
