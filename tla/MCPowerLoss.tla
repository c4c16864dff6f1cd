----------------------------- MODULE MCPowerLoss -----------------------------
(* TLC instance of PowerLoss: the rows and folders of MCImportPipeline.      *)
EXTENDS PowerLoss, MCImportPipeline
=============================================================================
