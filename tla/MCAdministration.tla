---------------------------- MODULE MCAdministration ----------------------------
\* Administration on a small instance.
EXTENDS Administration
=================================================================================
