----------------------------- MODULE MCCdxCache -----------------------------
EXTENDS CdxCache, TLC

Address(scheme, rest) ==
  [scheme |-> scheme, netloc |-> "site", rest |-> rest, spelling |-> "plain"]

MCUrl == Address("http", "page")

\* One capture of the URL itself, one of its https variant, and one of another page that
\* the index folds with it, made in the same second as the second.
MCRows ==
  {[timestamp |-> 1, original |-> Address("http", "page"), status |-> "2xx"],
   [timestamp |-> 2, original |-> Address("https", "page"), status |-> "2xx"],
   [timestamp |-> 2, original |-> Address("http", "other"), status |-> "2xx"]}

MCAccept == {"exact", "normalized", "scheme_differs"}

MCSelections ==
  {[policy |-> "exact", timestamp |-> 2], [policy |-> "nearest", timestamp |-> 2],
   [policy |-> "latest", timestamp |-> 0]}

LookupSymmetry == Permutations(Lookups)
=============================================================================
