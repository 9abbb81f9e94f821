-------------------------- MODULE MCModuleSystem --------------------------
(* Every application of up to three modules and four requirements, among   *)
(* them cycles, self-requirements, repeated ones and names of modules that *)
(* are never constructed.                                                  *)
EXTENDS ModuleSystem
CONSTANTS wifi, mqtt, ha

MCModules == {wifi, mqtt, ha}
=============================================================================
