-------------------------- MODULE MCBundleMonitor --------------------------
(* Model-checking instance of BundleMonitor. *)
EXTENDS BundleMonitor
=============================================================================
