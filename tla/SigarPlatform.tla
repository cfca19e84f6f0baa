--------------------------- MODULE SigarPlatform ---------------------------
(***************************************************************************)
(* The operating system a build of the Sigar library is for: the directory *)
(* under os/ that is compiled with the common code. It never changes.      *)
(***************************************************************************)
VARIABLE platform

Platforms == {"linux", "aix", "hpux", "solaris", "darwin", "win32"}
=============================================================================
