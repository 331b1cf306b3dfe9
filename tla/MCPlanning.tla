------------------------------- MODULE MCPlanning -------------------------------
EXTENDS Planning
OneOfEach == <<"Curator", "Gatekeeper", "Orchestrator">>
=================================================================================
