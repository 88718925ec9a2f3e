----------------------------- MODULE MCMipsDec -----------------------------
EXTENDS MipsDec
=============================================================================
