--------------------------- MODULE MCConfigAgent ---------------------------
(* Four texts: two valid configurations, one that Validate refuses, and a    *)
(* file that cannot be read.                                                 *)
EXTENDS ConfigAgent

MCContents == {"valid1", "valid2", "invalid", "missing"}
MCUnreadable == {"missing"}
MCValid == {"valid1", "valid2"}
=============================================================================
