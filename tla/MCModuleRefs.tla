----------------------------- MODULE MCModuleRefs -----------------------------
\* ModuleRefs for TLC: counters that saturate at four, with clients that may own five
\* references on an object.
EXTENDS ModuleRefs
===============================================================================
