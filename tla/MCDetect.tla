------------------------------ MODULE MCDetect ------------------------------
(* Detect with the default tests, all of them, and those options alone that *)
(* change the course of detect().                                           *)
EXTENDS Detect

DefaultTests == {"outguess", "jphide", "jsteg", "invisible", "f5", "append"}

MCMasks ==
    { DefaultTests,
      DefaultTests \union {"checkhdrs"},
      Tests \union {"classdis"},
      Tests \union {"classdis", "checkhdrs"},
      {"jsteg"},
      {"jsteg", "append", "checkhdrs"},
      {"f5", "f5slow", "outguess"},
      {"transf"},
      {"transf", "classdis", "checkhdrs"} }
=============================================================================
