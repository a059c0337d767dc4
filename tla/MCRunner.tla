------------------------------ MODULE MCRunner ------------------------------
\* Instances of RunnerProcess for TLC; the cfg files give the constants values.
EXTENDS RunnerProcess
=============================================================================
