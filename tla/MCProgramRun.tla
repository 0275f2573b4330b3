---------------------------- MODULE MCProgramRun ----------------------------
EXTENDS ProgramRun
=============================================================================
