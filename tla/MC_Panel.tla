-------------------------------- MODULE MC_Panel --------------------------------
EXTENDS Panel
CONSTANTS A, B

MCSessions == {A, B}

================================================================================
