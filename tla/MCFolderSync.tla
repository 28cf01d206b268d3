---------------------------- MODULE MCFolderSync ----------------------------
EXTENDS FolderSync

=============================================================================
