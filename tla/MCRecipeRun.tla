---------------------------- MODULE MCRecipeRun ----------------------------
(* Small instances of RecipeRun. *)
EXTENDS RecipeRun

(* An advisory step before a required one, and required work only. *)
MCAdvisoryFirst == <<"advisory", "required">>
MCRequired == <<"required">>
=============================================================================
