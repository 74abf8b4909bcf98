-------------------------- MODULE MCGitHubDelivery --------------------------
(* One series of attempts; two calls may be under way at the same time.    *)
EXTENDS GitHubDelivery, TLC

CallSymmetry == Permutations(Call)
=============================================================================
