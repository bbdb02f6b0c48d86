------------------------------- MODULE MCHome -------------------------------
EXTENDS Home
=============================================================================
