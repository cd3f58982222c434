--------------------------- MODULE MCUploadReaper ---------------------------
EXTENDS UploadReaper
=============================================================================
