SPECIFICATION HostSpec
CONSTANTS
    Hosts = {h1, h2}
    Maint = maint
    Installer = installer
    Nobody = nobody
INVARIANTS OneWriter NoHostDuringInstall
PROPERTIES Answered
