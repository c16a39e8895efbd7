-------------------------- MODULE MCAndroidUpload --------------------------
(* AndroidUpload for TLC: the constants are given in the configuration.    *)
EXTENDS AndroidUpload

=============================================================================
