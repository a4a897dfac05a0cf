--------------------------- MODULE MCRansomware ---------------------------
EXTENDS Ransomware

CountryOf(v) == IF v = "v1" THEN "AR" ELSE "UY"
=============================================================================
