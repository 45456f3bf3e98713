--------------------------- MODULE MCGuardedPages ---------------------------
(* Constants of GuardedPages for TLC.                                      *)
EXTENDS GuardedPages

\* Every guarded page but About, whose error test the violation run checks.
MCRedirecting == {"Logs", "SChainsPage", "Security", "SlaBounty"}
MCAllPages    == Guarded
MCOnePage     == {"SChainsPage"}
\* About alone, whose callback tests data.data.errors.
MCAboutPage   == {"About"}
\* One page that redirects on a 401 (and lists certificates) and one that
\* does not.
MCLivePages   == {"Security", "About"}
MCEitherData  == {TRUE, FALSE}
MCEitherUsers == {TRUE, FALSE}
=============================================================================
