------------------------------ MODULE MCStartup ------------------------------
(* Databases no migration has touched, and of a release in between.         *)
EXTENDS Startup

MCUpgrades == {Migrations, {"linkedin_granular", "event_placeholder", "cv_text"}}
=============================================================================
