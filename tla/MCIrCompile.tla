---------------------------- MODULE MCIrCompile ----------------------------
(***************************************************************************)
(* Small instances of IrCompile: machines without a driver, with one NPU   *)
(* behind another device or another driver, and with an empty driver.      *)
(***************************************************************************)
EXTENDS IrCompile

MCPlatforms == {<<>>, <<<<"other", "vpu">>>>, <<<<"vpu">>, <<"other", "vpu">>>>, <<<<>>, <<"vpu">>>>}
============================================================================
