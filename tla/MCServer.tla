------------------------------- MODULE MCServer -------------------------------
EXTENDS Server

\* What follows a spoilt copy shows nothing more.
Unspoilt == part = "gzip" => ~spoilt
=============================================================================
