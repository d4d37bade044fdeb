---------------------------- MODULE MCAcquisition ----------------------------
(* Two separating inputs, and three cases of two forms that share keys.       *)
EXTENDS Acquisition
CONSTANTS q, k1, k2, k3
MCKeys == {q, k1, k2, k3}
MCInputs == <<k1, k2>>
MCRequests == << << <<k1, k2>>, <<k2, k3>> >>, << <<k3, k1>> >> >>
=============================================================================
