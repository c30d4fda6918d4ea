---------------------------- MODULE MCApiManager ----------------------------
(***************************************************************************)
(* ApiManager on a small instance.                                         *)
(***************************************************************************)
EXTENDS ApiManager

CONSTANTS
  openai,        \* a provider with a name, whose key is required
  custom,        \* CustomProvider: no name, no key required, no timer
  k              \* a key

MCNamed == {openai}
MCProviders == {openai, custom}
MCKeys == {k}
MCLimits == {0, 1}
MCOneLimit == {1}

=============================================================================
